---------------------------- MODULE Spec2Model ----------------------------
(***************************************************************************)
(* A model of the financial-analysis scripts of analyse-skills             *)
(* (src/scripts).  The scripts are independent pipelines, so the model is  *)
(* a family of state machines over one set of variables, one               *)
(* specification per script function that is verified:                     *)
(*                                                                         *)
(*   SpecNormalize   utils.normalize_stock_code                            *)
(*   SpecParseNumber the parse_number functions of the extractors          *)
(*   SpecUnit        unit detection and scaling of the HK extractors       *)
(*   SpecDerived     fetch_financial_from_reports.calculate_derived_...     *)
(*   SpecDownload    batch_hk_stocks.download_hk_reports / find_pdf_files  *)
(*   SpecSortKeys    generate_metrics_table ... _sort_report_keys          *)
(*   SpecSentiment   fetch_xueqiu_discussions.analyze_discussions          *)
(*   SpecQuarterly   fetch_financial_from_reports.parse_all_quarterly_...   *)
(*   SpecSave        the saves of the HK extractors into financials.db      *)
(*   SpecExtract     the pattern search of parse_pdf_with_source and of     *)
(*                   extract_hk_financials.extract_financials_from_text     *)
(*   SpecFilter      the field loops of the three HK extractors            *)
(*   SpecPipeline    analyze_company.main                                  *)
(*   SpecParsePdf    parse_pdf_with_source on documents that fail          *)
(*   SpecCopy        the downloaders of fetch_reports and SecEdgarReports  *)
(*   SpecFindPdfs    batch_hk_stocks.find_pdf_files                        *)
(*   SpecCli         the argument checks of the command-line entry points  *)
(*   SpecRuns        two pipeline runs: utils.create_output_directory and  *)
(*                   summarize_and_archive ... create_quick_index          *)
(*   SpecOpinions    the key opinions of analyze_discussions               *)
(*   SpecPostSentiment  fetch_xueqiu_discussions.analyze_sentiment         *)
(*   SpecMarket      fetch_reports.download_reports_and_announcements      *)
(*   SpecUnitNormalize  FinancialReportParser.parse_number with a unit and *)
(*                   the value extract_from_text_with_source records       *)
(*   SpecConcurrentSave  two processes saving into financials.db           *)
(*   SpecProvenance      page, line and context of parse_pdf_with_source   *)
(*   SpecNetworkDate     get_current_date_from_network and its cache       *)
(*   SpecScroll          the scroll loop of fetch_stock_discussions        *)
(*   SpecBatch           batch_hk_stocks.main with resume                  *)
(*                                                                         *)
(* Strings are sequences of one-character strings.  The file is kept in    *)
(* ASCII: a CJK character of the source is written as a short romanised    *)
(* token (for example "yi4" for U+4EBF) and is one character of the model; *)
(* so is an English word of a keyword ("million", "Annual").               *)
(***************************************************************************)
EXTENDS Integers, Sequences, FiniteSets, TLC

VARIABLES
    nsc_code,      \* normalize_stock_code: the argument `code`
    nsc_result,    \* normalize_stock_code: the returned tuple, None before the call
    pn_figure,     \* parse_number: the figure the matched text was printed from
    pn_text,       \* parse_number: the argument `text` / `value_str`
    pn_result,     \* parse_number: per implementation, the value returned
    unit_text,     \* HK extractors: the text of the document
    unit_raw,      \* HK extractors: the revenue figure matched in the text
    unit_saved,    \* HK extractors: per extractor, the unit and revenue kept
    cdi_data,      \* calculate_derived_indicators: the argument `data`
    cdi_out,       \* calculate_derived_indicators: the outcome, None before the call
    dl_files,      \* batch_hk_stocks: the files under SCRIPT_DIR/data
    dl_result,     \* download_hk_reports: the last call's argument and return
    dl_runs,       \* download_hk_reports: subprocess.run calls made so far
    dl_calls,      \* download_hk_reports: calls made so far
    srk_periods,   \* MetricsTableGenerator: the (year, type) periods of the data
    srk_keys,      \* MetricsTableGenerator: list(financial_data.keys())
    srk_sorted,    \* MetricsTableGenerator: self.sorted_keys, None before
    ad_sentiment,  \* analyze_discussions: analysis['sentiment'] counts
    ad_score,      \* analyze_discussions: the score returned, None before
    pq_docs,       \* parse_all_quarterly_reports: per PDF of the report
                   \* directories, None (no such file) or what parsing it gives
    pq_next,       \* parse_all_quarterly_reports: the PDFs before it are done
    pq_all_data,   \* parse_all_quarterly_reports: all_data
    pq_returned,   \* parse_all_quarterly_reports: the keys of the returned
                   \* dict in order, None before the return
    fin_table,     \* financials.db: the table financials, a row (its columns
                   \* that are not NULL) per (stock_code, year)
    fin_gross_of,  \* history: per row, the revenue saved together with the
                   \* gross_margin the row holds
    fin_saves,     \* financials.db: save operations done so far
    ex_pages,      \* indicator extraction: the pages of the document, each
                   \* the places where a revenue pattern matches, in text order
    ex_result,     \* indicator extraction: per extractor, the revenue recorded
    mf_unit_text,  \* HK extractors, field extraction: the unit words of the text
    mf_matches,    \* HK extractors, field extraction: the figures matched by the
                   \* patterns of the fields, each field's in the order of its list
    mf_data,       \* HK extractors, field extraction: per extractor, the data returned
    pl_skip_xueqiu, \* analyze_company.main: --skip-xueqiu was given
    pl_phase,      \* analyze_company.main: the phase to run next
    pl_results,    \* analyze_company.main: per phase run, what it returned
    pl_prompt,     \* analyze_company.main: analysis_prompt.txt has been written
    pl_exit,       \* analyze_company.main: the exit status, None while running
    pp_pypdf2,     \* parse_pdf_with_source: PyPDF2 could be imported
    pp_docs,       \* parse_pdf_with_source: the PDFs of the report directories,
                   \* each with what is wrong with it and its pages
    pp_next,       \* parse_all_quarterly_reports: the PDFs before it are done
    pp_all_data,   \* parse_all_quarterly_reports: all_data
    pp_raised,     \* parse_all_quarterly_reports: an exception left the loop
    cp_market_type, \* downloaders: the market type of the stock code
    cp_source,     \* downloaders: the PDFs under script_dir/data/<code>_*, name to content
    cp_dest,       \* downloaders: the files of the destination directories,
                   \* <<directory, name>> to content
    cp_requests,   \* SecEdgarReports.download_filing: httpx.get calls made
    cp_runs,       \* downloaders: calls made so far
    fp_files,      \* find_pdf_files: the files under SCRIPT_DIR/data
    fp_found,      \* find_pdf_files: the last call's argument and returned list
    cli_script,    \* command line: the script that is run
    cli_argv,      \* command line: the arguments after the script name
    cli_index,     \* quick_learn: the state of company_index.json
    cli_usage,     \* command line: TRUE once the usage text was printed
    cli_work,      \* command line: the steps taken besides printing
    cli_exit,      \* command line: the exit status, None while running
    rn_today,      \* runs: the calendar day, as datetime.now() reports it
    rn_code,       \* runs: per run, the normalised stock code it analyses
    rn_pc,         \* runs: per run, the step it has reached
    rn_dir,        \* runs: per run, the output directory it created, None before
    rn_read,       \* runs: per run, the index it read in create_quick_index
    rn_index,      \* runs: company_index.json, company code -> run of the entry
    rn_written,    \* runs: the writes made, as (run, directory, file name)
    ko_discussions, \* key opinions: the argument `discussions`
    ko_analysis,   \* key opinions: the analysis returned, None before
    sa_content,    \* analyze_sentiment: the argument `content`
    sa_result,     \* analyze_sentiment: the sentiment returned, None before
    dra_stock_code, \* download_reports_and_announcements: the argument
    dra_called,    \* download_reports_and_announcements: the downloaders called
    un_value_str,  \* unit normalisation: the figure matched in the text
    un_unit,       \* unit normalisation: the unit word after the figure, None if none
    un_direct,     \* unit normalisation: parse_number(value_str, unit), None before
    un_recorded,   \* unit normalisation: the indicator value recorded, None before
    cs_rows,       \* concurrent saves: the rows of the table financials
    cs_pc,         \* concurrent saves: per process, where it is in save_to_db
    cs_call,       \* concurrent saves: per process, the save it is in
    cs_existing,   \* concurrent saves: per process, whether its SELECT found a row
    cs_saves,      \* concurrent saves: per process, the saves it has begun
    cs_last,       \* concurrent saves: per key, the save that completed last
    sp_pages,      \* provenance: the pages of the PDF, as extract_text answers
    sp_save_text,  \* provenance: the argument save_text
    sp_file,       \* provenance: the characters written to the .txt file
    sp_result,     \* provenance: the indicator roe of the result, or None
    sp_done,       \* provenance: parse_pdf_with_source has returned
    nd_today,      \* network date: the date of the time servers
    nd_skew,       \* network date: how far the local clock is ahead
    nd_cached,     \* network date: the module's _cached_network_date
    nd_calls,      \* network date: the calls of get_current_date_from_network
    nd_requests,   \* network date: the requests sent to the time APIs
    nd_returned,   \* network date: the value the last call returned
    sc_shown,      \* scroll: the posts the page shows, the first sc_shown of the timeline
    sc_max_pages,  \* scroll: the argument max_pages
    sc_page_num,   \* scroll: the turns of the scroll loop done
    sc_discussions, \* scroll: the list discussions
    sc_analysis,   \* scroll: the analysis of the list, or None
    bm_db,         \* batch: the stock codes with a row of market HK in financials.db
    bm_db0,        \* batch: those codes when main began
    bm_resume,     \* batch: the argument resume
    bm_pc,         \* batch: where main is
    bm_i,          \* batch: the stocks of HK_STOCKS the loop has passed
    bm_run,        \* batch: processed, success_count and failed_stocks of main
    bm_log         \* batch: the calls of process_stock, in order

normVars == <<nsc_code, nsc_result>>
pnVars == <<pn_figure, pn_text, pn_result>>
unitVars == <<unit_text, unit_raw, unit_saved>>
cdiVars == <<cdi_data, cdi_out>>
dlVars == <<dl_files, dl_result, dl_runs, dl_calls>>
srkVars == <<srk_periods, srk_keys, srk_sorted>>
adVars == <<ad_sentiment, ad_score>>
pqVars == <<pq_docs, pq_next, pq_all_data, pq_returned>>
finVars == <<fin_table, fin_gross_of, fin_saves>>
exVars == <<ex_pages, ex_result>>
mfVars == <<mf_unit_text, mf_matches, mf_data>>
plVars == <<pl_skip_xueqiu, pl_phase, pl_results, pl_prompt, pl_exit>>
ppVars == <<pp_pypdf2, pp_docs, pp_next, pp_all_data, pp_raised>>
cpVars == <<cp_market_type, cp_source, cp_dest, cp_requests, cp_runs>>
fpVars == <<fp_files, fp_found>>
cliVars == <<cli_script, cli_argv, cli_index, cli_usage, cli_work, cli_exit>>
rnVars == <<rn_today, rn_code, rn_pc, rn_dir, rn_read, rn_index, rn_written>>
koVars == <<ko_discussions, ko_analysis>>
saVars == <<sa_content, sa_result>>
draVars == <<dra_stock_code, dra_called>>
unVars == <<un_value_str, un_unit, un_direct, un_recorded>>
csVars == <<cs_rows, cs_pc, cs_call, cs_existing, cs_saves, cs_last>>
spVars == <<sp_pages, sp_save_text, sp_file, sp_result, sp_done>>
ndVars == <<nd_today, nd_skew, nd_cached, nd_calls, nd_requests, nd_returned>>
scVars == <<sc_shown, sc_max_pages, sc_page_num, sc_discussions, sc_analysis>>
bmVars == <<bm_db, bm_db0, bm_resume, bm_pc, bm_i, bm_run, bm_log>>

vars == <<normVars, pnVars, unitVars, cdiVars, dlVars, srkVars, adVars, pqVars, finVars, exVars, mfVars, plVars, ppVars, cpVars, fpVars, cliVars, rnVars, koVars, saVars, draVars, unVars, csVars, spVars, ndVars, scVars, bmVars>>

\* Python's None, and a value that is not None: an optional value is a
\* sequence of length 0 or 1.
None == <<>>
Some(v) == <<v>>
Val(o) == o[1]

\* Sequencing: F applied to the value of v, which is computed once.
Then(v, F(_)) == CHOOSE y \in { F(x) : x \in {v} } : TRUE

\* A Python dict is a function whose domain is the set of its keys.
EmptyDict == <<>>
Put(d, k, v) == [x \in DOMAIN d \cup {k} |-> IF x = k THEN v ELSE d[x]]

(***************************************************************************)
(* String helpers (Python str methods used by the scripts).                *)
(***************************************************************************)

\* The characters str.isdigit accepts among the model's characters.
DigitChars == {"0", "1", "2", "3", "4", "5", "6", "7", "8", "9"}

\* The characters str.strip removes among the model's characters.
WhitespaceChars == {" "}

\* str.upper on one character (the lower-case letters of the model).
UpperChar(c) ==
    CASE c = "s" -> "S"
      [] c = "h" -> "H"
      [] c = "z" -> "Z"
      [] c = "k" -> "K"
      [] c = "u" -> "U"
      [] c = "a" -> "A"
      [] OTHER -> c

\* str.upper
StrUpper(s) == [i \in 1..Len(s) |-> UpperChar(s[i])]

\* str.isdigit: non-empty and every character a digit.
IsDigitStr(s) == Len(s) > 0 /\ \A i \in 1..Len(s) : s[i] \in DigitChars

RECURSIVE LStrip(_)
LStrip(s) ==
    IF s # <<>> /\ Head(s) \in WhitespaceChars THEN LStrip(Tail(s)) ELSE s

RECURSIVE RStrip(_)
RStrip(s) ==
    IF s # <<>> /\ s[Len(s)] \in WhitespaceChars
    THEN RStrip(SubSeq(s, 1, Len(s) - 1))
    ELSE s

\* str.strip
StrStrip(s) == RStrip(LStrip(s))

\* `c in s` for a one-character c.
HasChar(s, c) == \E i \in 1..Len(s) : s[i] = c

\* Index of the first occurrence of character c in s at or after position
\* from, or 0 when there is none.
RECURSIVE FindChar(_, _, _)
FindChar(s, c, from) ==
    IF from > Len(s) THEN 0
    ELSE IF s[from] = c THEN from
    ELSE FindChar(s, c, from + 1)

\* s.split(c): the sequence of the pieces of s between occurrences of c.
RECURSIVE SplitChar(_, _)
SplitChar(s, c) ==
    LET i == FindChar(s, c, 1) IN
    IF i = 0 THEN <<s>>
    ELSE <<SubSeq(s, 1, i - 1)>> \o SplitChar(SubSeq(s, i + 1, Len(s)), c)

\* s.startswith(c) for a one-character c.
StartsWithChar(s, c) == Len(s) > 0 /\ s[1] = c

(***************************************************************************)
(* The scripts do not share state: a specification runs one of them and    *)
(* the variables of the others stay at their idle values.                  *)
(***************************************************************************)

NormIdle == nsc_code = <<>> /\ nsc_result = None
PnIdle == pn_figure = None /\ pn_text = <<>> /\ pn_result = EmptyDict
UnitIdle == unit_text = <<>> /\ unit_raw = None /\ unit_saved = EmptyDict
CdiIdle == cdi_data = EmptyDict /\ cdi_out = None
DlIdle == dl_files = {} /\ dl_result = None /\ dl_runs = 0 /\ dl_calls = 0
SrkIdle == srk_periods = <<>> /\ srk_keys = <<>> /\ srk_sorted = None
NoSentiment == [positive |-> 0, negative |-> 0, neutral |-> 0]
AdIdle == ad_sentiment = NoSentiment /\ ad_score = None
FinIdle == fin_table = EmptyDict /\ fin_gross_of = EmptyDict /\ fin_saves = 0
ExIdle == ex_pages = <<>> /\ ex_result = EmptyDict
MfIdle == mf_unit_text = <<>> /\ mf_matches = <<>> /\ mf_data = EmptyDict
PlIdle == pl_skip_xueqiu = FALSE /\ pl_phase = 1 /\ pl_results = EmptyDict
          /\ pl_prompt = FALSE /\ pl_exit = None
PpIdle == pp_pypdf2 = TRUE /\ pp_docs = <<>> /\ pp_next = 1
          /\ pp_all_data = EmptyDict /\ pp_raised = FALSE
CpIdle == cp_market_type = "A" /\ cp_source = EmptyDict /\ cp_dest = EmptyDict
          /\ cp_requests = 0 /\ cp_runs = 0
FpIdle == fp_files = {} /\ fp_found = None
CliIdle == cli_script = "" /\ cli_argv = <<>> /\ cli_index = "absent" /\ cli_usage = FALSE /\ cli_work = {} /\ cli_exit = None
RnIdle == rn_today = 0 /\ rn_code = <<>> /\ rn_pc = <<>> /\ rn_dir = <<>> /\ rn_read = <<>> /\ rn_index = <<>> /\ rn_written = {}
KoIdle == ko_discussions = <<>> /\ ko_analysis = None
SaIdle == sa_content = <<>> /\ sa_result = None
DraIdle == dra_stock_code = <<>> /\ dra_called = None
UnIdle == un_value_str = <<>> /\ un_unit = None /\ un_direct = None /\ un_recorded = None
CsIdle == cs_rows = <<>> /\ cs_pc = <<>> /\ cs_call = <<>> /\ cs_existing = <<>> /\ cs_saves = <<>> /\ cs_last = <<>>
SpIdle == sp_pages = <<>> /\ sp_save_text = FALSE /\ sp_file = <<>> /\ sp_result = <<>> /\ sp_done = FALSE
NdIdle == nd_today = 0 /\ nd_skew = 0 /\ nd_cached = <<>> /\ nd_calls = 0 /\ nd_requests = 0 /\ nd_returned = <<>>
ScIdle == sc_shown = 0 /\ sc_max_pages = 0 /\ sc_page_num = 0 /\ sc_discussions = <<>> /\ sc_analysis = <<>>
BmIdle == bm_db = {} /\ bm_db0 = {} /\ bm_resume = FALSE /\ bm_pc = "" /\ bm_i = 0 /\ bm_run = <<>> /\ bm_log = <<>>
PqIdle ==
    pq_docs = <<>> /\ pq_next = 1 /\ pq_all_data = EmptyDict /\ pq_returned = None

\* Every script but g is idle.
IdleExcept(g) ==
    /\ IF g = "norm" THEN TRUE ELSE NormIdle
    /\ IF g = "pn" THEN TRUE ELSE PnIdle
    /\ IF g = "unit" THEN TRUE ELSE UnitIdle
    /\ IF g = "cdi" THEN TRUE ELSE CdiIdle
    /\ IF g = "dl" THEN TRUE ELSE DlIdle
    /\ IF g = "srk" THEN TRUE ELSE SrkIdle
    /\ IF g = "ad" THEN TRUE ELSE AdIdle
    /\ IF g = "pq" THEN TRUE ELSE PqIdle
    /\ IF g = "fin" THEN TRUE ELSE FinIdle
    /\ IF g = "ex" THEN TRUE ELSE ExIdle
    /\ IF g = "mf" THEN TRUE ELSE MfIdle
    /\ IF g = "pl" THEN TRUE ELSE PlIdle
    /\ IF g = "pp" THEN TRUE ELSE PpIdle
    /\ IF g = "cp" THEN TRUE ELSE CpIdle
    /\ IF g = "fp" THEN TRUE ELSE FpIdle
    /\ IF g = "cli" THEN TRUE ELSE CliIdle
    /\ IF g = "rn" THEN TRUE ELSE RnIdle
    /\ IF g = "ko" THEN TRUE ELSE KoIdle
    /\ IF g = "sa" THEN TRUE ELSE SaIdle
    /\ IF g = "dra" THEN TRUE ELSE DraIdle
    /\ IF g = "un" THEN TRUE ELSE UnIdle
    /\ IF g = "cs" THEN TRUE ELSE CsIdle
    /\ IF g = "sp" THEN TRUE ELSE SpIdle
    /\ IF g = "nd" THEN TRUE ELSE NdIdle
    /\ IF g = "sc" THEN TRUE ELSE ScIdle
    /\ IF g = "bm" THEN TRUE ELSE BmIdle

\* A step of script g leaves the variables of the others alone.
Frame(g) ==
    /\ IF g = "norm" THEN TRUE ELSE UNCHANGED normVars
    /\ IF g = "pn" THEN TRUE ELSE UNCHANGED pnVars
    /\ IF g = "unit" THEN TRUE ELSE UNCHANGED unitVars
    /\ IF g = "cdi" THEN TRUE ELSE UNCHANGED cdiVars
    /\ IF g = "dl" THEN TRUE ELSE UNCHANGED dlVars
    /\ IF g = "srk" THEN TRUE ELSE UNCHANGED srkVars
    /\ IF g = "ad" THEN TRUE ELSE UNCHANGED adVars
    /\ IF g = "pq" THEN TRUE ELSE UNCHANGED pqVars
    /\ IF g = "fin" THEN TRUE ELSE UNCHANGED finVars
    /\ IF g = "ex" THEN TRUE ELSE UNCHANGED exVars
    /\ IF g = "mf" THEN TRUE ELSE UNCHANGED mfVars
    /\ IF g = "pl" THEN TRUE ELSE UNCHANGED plVars
    /\ IF g = "pp" THEN TRUE ELSE UNCHANGED ppVars
    /\ IF g = "cp" THEN TRUE ELSE UNCHANGED cpVars
    /\ IF g = "fp" THEN TRUE ELSE UNCHANGED fpVars
    /\ IF g = "cli" THEN TRUE ELSE UNCHANGED cliVars
    /\ IF g = "rn" THEN TRUE ELSE UNCHANGED rnVars
    /\ IF g = "ko" THEN TRUE ELSE UNCHANGED koVars
    /\ IF g = "sa" THEN TRUE ELSE UNCHANGED saVars
    /\ IF g = "dra" THEN TRUE ELSE UNCHANGED draVars
    /\ IF g = "un" THEN TRUE ELSE UNCHANGED unVars
    /\ IF g = "cs" THEN TRUE ELSE UNCHANGED csVars
    /\ IF g = "sp" THEN TRUE ELSE UNCHANGED spVars
    /\ IF g = "nd" THEN TRUE ELSE UNCHANGED ndVars
    /\ IF g = "sc" THEN TRUE ELSE UNCHANGED scVars
    /\ IF g = "bm" THEN TRUE ELSE UNCHANGED bmVars

(***************************************************************************)
(* utils.normalize_stock_code                                              *)
(***************************************************************************)

\* A mutant of normalize_stock_code: the check for an existing market
\* suffix is dropped, so a suffix is appended to every code.
normalize_stock_code_no_suffix_check(code0) ==
    LET code == StrUpper(StrStrip(code0)) IN
    IF Len(code) = 5 /\ IsDigitStr(code)
    THEN <<code \o <<".", "H", "K">>, <<"H", "K">>, "HK">>
    ELSE IF StartsWithChar(code, "6")
    THEN <<code \o <<".", "S", "H">>, <<"S", "H">>, "A">>
    ELSE IF StartsWithChar(code, "0") \/ StartsWithChar(code, "3")
    THEN <<code \o <<".", "S", "Z">>, <<"S", "Z">>, "A">>
    ELSE <<code \o <<".", "S", "H">>, <<"S", "H">>, "A">>

\* normalize_stock_code(code) -> (normalized_code, market, market_type)
normalize_stock_code(code0) ==
    LET code == StrUpper(StrStrip(code0)) IN
    IF HasChar(code, ".")
    THEN LET parts == SplitChar(code, ".")
             market == parts[2]
             market_type == IF market = <<"H", "K">> THEN "HK" ELSE "A"
         IN  <<code, market, market_type>>
    ELSE IF Len(code) = 5 /\ IsDigitStr(code)
    THEN <<code \o <<".", "H", "K">>, <<"H", "K">>, "HK">>
    ELSE IF StartsWithChar(code, "6")
    THEN <<code \o <<".", "S", "H">>, <<"S", "H">>, "A">>
    ELSE IF StartsWithChar(code, "0") \/ StartsWithChar(code, "3")
    THEN <<code \o <<".", "S", "Z">>, <<"S", "Z">>, "A">>
    ELSE IF StartsWithChar(code, "8") \/ StartsWithChar(code, "4")
    THEN <<code \o <<".", "B", "J">>, <<"B", "J">>, "A">>
    ELSE <<code \o <<".", "S", "H">>, <<"S", "H">>, "A">>

\* Input domain of SpecNormalize: a code of MaxCodeLen-1 or MaxCodeLen
\* digits (5 or 6: a Hong Kong or an A-share code), optionally followed by a
\* market suffix (upper or lower case), optionally surrounded by blanks.
MaxCodeLen == 6

CodeDigits == {"0", "3", "6", "9"}

CodeSuffixes ==
    { <<>>, <<".", "S", "H">>, <<".", "s", "z">>, <<".", "H", "K">> }

RECURSIVE SeqsOfLen(_, _)
SeqsOfLen(S, n) ==
    IF n = 0 THEN { <<>> }
    ELSE { <<x>> \o t : x \in S, t \in SeqsOfLen(S, n - 1) }

SeqsUpTo(S, lo, hi) == UNION { SeqsOfLen(S, n) : n \in lo..hi }

NormalizeInputs ==
    { pad \o digits \o suffix \o pad :
        pad \in { <<>>, <<" ">> },
        digits \in SeqsUpTo(CodeDigits, MaxCodeLen - 1, MaxCodeLen),
        suffix \in CodeSuffixes }

NormInit ==
    /\ nsc_code \in NormalizeInputs
    /\ nsc_result = None
    /\ IdleExcept("norm")

\* One call of normalize_stock_code on the argument.
NormalizeStockCode ==
    /\ nsc_result = None
    /\ nsc_result' = normalize_stock_code(nsc_code)
    /\ UNCHANGED nsc_code
    /\ Frame("norm")

NormNext == NormalizeStockCode

SpecNormalize == NormInit /\ [][NormNext]_vars

\* The code has n characters, all digits.
IsNDigitCode(s, n) == Len(s) = n /\ IsDigitStr(s)

\* C1 (as amended): once normalize_stock_code has returned, a 6-digit code
\* starting with 6 is mapped to <code>.SH, a 6-digit code starting with 0 or
\* 3 to <code>.SZ, a 5-digit code to <code>.HK, and an input that already
\* carries a market suffix is returned with no suffix added: it is the input
\* with surrounding blanks removed and its letters in upper case, hence the
\* input itself when the input is already in that form.
C1_NormalizeAmended ==
    nsc_result # None =>
        /\ (IsNDigitCode(nsc_code, 6) /\ nsc_code[1] = "6")
              => nsc_result[1] = nsc_code \o <<".", "S", "H">>
        /\ (IsNDigitCode(nsc_code, 6) /\ nsc_code[1] \in {"0", "3"})
              => nsc_result[1] = nsc_code \o <<".", "S", "Z">>
        /\ IsNDigitCode(nsc_code, 5)
              => nsc_result[1] = nsc_code \o <<".", "H", "K">>
        /\ HasChar(nsc_code, ".")
              => /\ nsc_result[1] = StrUpper(StrStrip(nsc_code))
                 /\ (nsc_code = StrUpper(StrStrip(nsc_code))
                       => nsc_result[1] = nsc_code)

\* C1 witness: a call has returned for an upper-case suffixed input, which
\* came back unchanged.
C1_Witness ==
    /\ nsc_code = <<"6", "0", "0", "9", "3", "9", ".", "S", "H">>
    /\ nsc_result # None
    /\ nsc_result[1] = nsc_code

\* C1 (original statement): every input that already carries a market
\* suffix is returned unchanged as the normalized code.
C1_SuffixedUnchanged ==
    (nsc_result # None /\ HasChar(nsc_code, ".")) => nsc_result[1] = nsc_code

(***************************************************************************)
(* Substring helpers (Python `in`, str.replace, re.search of a literal).   *)
(***************************************************************************)

\* pat occurs in s at position i.
MatchesAt(s, pat, i) ==
    /\ i >= 1
    /\ i + Len(pat) - 1 <= Len(s)
    /\ \A k \in 1..Len(pat) : s[i + k - 1] = pat[k]

\* `pat in s`
ContainsSub(s, pat) == \E i \in 1..(Len(s) + 1) : MatchesAt(s, pat, i)

\* s.replace(pat, ''): every occurrence of the non-empty pat removed, left to
\* right, without overlap.
RECURSIVE RemoveSub(_, _)
RemoveSub(s, pat) ==
    IF s = <<>> THEN <<>>
    ELSE IF MatchesAt(s, pat, 1)
    THEN RemoveSub(SubSeq(s, Len(pat) + 1, Len(s)), pat)
    ELSE <<Head(s)>> \o RemoveSub(Tail(s), pat)

(***************************************************************************)
(* Floats.  A float is the exact decimal num / 10^scale (scale may be      *)
(* negative), kept normalised (num has no trailing zero), so that 1234.50  *)
(* and 1234.5 are the same value, as they are for Python.                  *)
(***************************************************************************)

RECURSIVE Normalise(_, _)
Normalise(num, scale) ==
    IF num = 0 THEN [num |-> 0, scale |-> 0]
    ELSE IF num % 10 = 0 THEN Normalise(num \div 10, scale - 1)
    ELSE [num |-> num, scale |-> scale]

\* float(n) for an integer n.
Float(n) == Normalise(n, 0)

RECURSIVE Pow10(_)
Pow10(k) == IF k = 0 THEN 1 ELSE 10 * Pow10(k - 1)

\* The k with u = 10^k, for a power of ten u.
RECURSIVE Log10(_)
Log10(u) == IF u <= 1 THEN 0 ELSE 1 + Log10(u \div 10)

\* value > n for an integer n.
FloatGtInt(value, n) ==
    IF value.scale >= 0 THEN value.num > n * Pow10(value.scale)
    ELSE value.num * Pow10(0 - value.scale) > n

\* value * u for a power of ten u (the unit multipliers of the extractors).
FloatTimesUnit(value, u) == Normalise(value.num, value.scale - Log10(u))

\* Python truthiness of an optional float: not None and not 0.0.
Truthy(o) == o # None /\ Val(o).num # 0

DigitVal(c) ==
    CASE c = "0" -> 0 [] c = "1" -> 1 [] c = "2" -> 2 [] c = "3" -> 3
      [] c = "4" -> 4 [] c = "5" -> 5 [] c = "6" -> 6 [] c = "7" -> 7
      [] c = "8" -> 8 [] c = "9" -> 9

\* The number a digit string denotes (0 for the empty string).
RECURSIVE DigitsToInt(_)
DigitsToInt(ds) ==
    IF ds = <<>> THEN 0
    ELSE 10 * DigitsToInt(SubSeq(ds, 1, Len(ds) - 1)) + DigitVal(ds[Len(ds)])

\* float(s) for the characters of the model: surrounding blanks are ignored,
\* then an optional sign, digits with at most one point and at least one
\* digit.  None stands for ValueError.
ParseFloat(s0) ==
    LET s == StrStrip(s0)
        signed == s # <<>> /\ s[1] \in {"-", "+"}
        body == IF signed THEN Tail(s) ELSE s
        points == { i \in 1..Len(body) : body[i] = "." }
        wellFormed ==
            /\ \A i \in 1..Len(body) : body[i] \in DigitChars \cup {"."}
            /\ Cardinality(points) <= 1
            /\ \E i \in 1..Len(body) : body[i] \in DigitChars
        p == IF points = {} THEN Len(body) + 1 ELSE CHOOSE i \in points : TRUE
        whole == SubSeq(body, 1, p - 1)
        frac == SubSeq(body, p + 1, Len(body))
        magnitude == DigitsToInt(whole \o frac)
        num == IF signed /\ s[1] = "-" THEN 0 - magnitude ELSE magnitude
    IN  IF wellFormed THEN Some(Normalise(num, Len(frac))) ELSE None

\* value / 10^k
DivPow10(value, k) == Normalise(value.num, value.scale + k)

(***************************************************************************)
(* parse_number: extract_hk_financials.py, extract_hk_v2.py,               *)
(* batch_hk_stocks.py and FinancialReportParser.parse_number.              *)
(* "," is the ASCII comma, "fwcomma" the full-width comma U+FF0C.          *)
(***************************************************************************)

\* text.startswith('(') and text.endswith(')'): text = '-' + text[1:-1]
ParenNegative(text) ==
    IF Len(text) > 0 /\ text[1] = "(" /\ text[Len(text)] = ")"
    THEN <<"-">> \o SubSeq(text, 2, Len(text) - 1)
    ELSE text

\* A mutant of parse_number_hk: the parenthesis form is not converted.
parse_number_hk_no_paren(text) ==
    IF text = <<>> THEN None
    ELSE ParseFloat(RemoveSub(RemoveSub(RemoveSub(text, <<",">>), <<" ">>),
                              <<"fwcomma">>))

\* extract_hk_financials.parse_number
parse_number_hk(text) ==
    IF text = <<>> THEN None
    ELSE LET t1 == RemoveSub(RemoveSub(RemoveSub(text, <<",">>), <<" ">>),
                             <<"fwcomma">>)
         IN  ParseFloat(ParenNegative(t1))

\* extract_hk_v2.parse_number
parse_number_v2(text) ==
    IF text = <<>> THEN None
    ELSE LET t1 == StrStrip(RemoveSub(RemoveSub(RemoveSub(text, <<",">>),
                                                <<" ">>), <<"fwcomma">>))
         IN  ParseFloat(ParenNegative(t1))

\* batch_hk_stocks.parse_number; qian1 yuan2 = U+5343 U+5143,
\* bai3 wan4 = U+767E U+4E07, yi4 = U+4EBF.
parse_number_batch(text) ==
    IF text = <<>> THEN None
    ELSE LET t1 == RemoveSub(RemoveSub(RemoveSub(text, <<",">>),
                                       <<"fwcomma">>), <<" ">>)
             t2 == RemoveSub(RemoveSub(RemoveSub(t1, <<"qian1", "yuan2">>),
                                       <<"bai3", "wan4">>), <<"yi4">>)
         IN  ParseFloat(ParenNegative(t2))

\* FinancialReportParser.parse_number(value_str, unit=None): the value in
\* units of 1e8 yuan.  str.lower leaves the unit words of the model as they
\* are.  wan4 = U+4E07, bai3 = U+767E, yuan2 = U+5143, yi4 = U+4EBF.
FinancialReportParser_parse_number(value_str, unit) ==
    IF value_str = <<>> THEN None
    ELSE LET clean_str == RemoveSub(RemoveSub(RemoveSub(value_str, <<",">>),
                                              <<"fwcomma">>), <<" ">>)
             value == ParseFloat(clean_str)
         IN  IF value = None THEN None
             ELSE IF unit = None THEN value
             ELSE IF ContainsSub(unit, <<"wan4">>)
             THEN Some(DivPow10(Val(value), 4))
             ELSE IF ContainsSub(unit, <<"bai3", "wan4">>)
             THEN Some(DivPow10(Val(value), 2))
             ELSE IF /\ ContainsSub(unit, <<"yuan2">>)
                     /\ ~ContainsSub(unit, <<"wan4">>)
                     /\ ~ContainsSub(unit, <<"yi4">>)
             THEN Some(DivPow10(Val(value), 8))
             ELSE value

\* The implementations, by the script that defines them.
ParseNumberImpls == {"extract_hk_financials", "extract_hk_v2",
                     "batch_hk_stocks", "FinancialReportParser"}

ParseNumberOf(impl, text) ==
    CASE impl = "extract_hk_financials" -> parse_number_hk(text)
      [] impl = "extract_hk_v2" -> parse_number_v2(text)
      [] impl = "batch_hk_stocks" -> parse_number_batch(text)
      [] impl = "FinancialReportParser" ->
             FinancialReportParser_parse_number(text, None)

(***************************************************************************)
(* Input domain of SpecParseNumber: figures as a report prints them.  A    *)
(* figure is a sign, the digits of its whole part and the digits of its    *)
(* fraction; it is printed with a comma between groups of three digits     *)
(* and, when negative, in parentheses.                                     *)
(***************************************************************************)

MaxWholeDigits == 4

FigureDigits == {"1", "5"}

FigureFractions == { <<>>, <<"5">>, <<"5", "0">> }

Figures ==
    [neg : BOOLEAN,
     whole : SeqsUpTo(FigureDigits, 1, MaxWholeDigits),
     frac : FigureFractions]

\* The digits with a comma before every group of three counted from the right.
RECURSIVE GroupThousands(_)
GroupThousands(ds) ==
    IF Len(ds) <= 3 THEN ds
    ELSE GroupThousands(SubSeq(ds, 1, Len(ds) - 3))
             \o <<",">> \o SubSeq(ds, Len(ds) - 2, Len(ds))

PrintFigure(f) ==
    LET body == GroupThousands(f.whole)
                    \o (IF f.frac = <<>> THEN <<>> ELSE <<".">> \o f.frac)
    IN  IF f.neg THEN <<"(">> \o body \o <<")">> ELSE body

\* The signed value of a figure.
FigureValue(f) ==
    LET magnitude == DigitsToInt(f.whole \o f.frac)
    IN  Normalise(IF f.neg THEN 0 - magnitude ELSE magnitude, Len(f.frac))

PnInit ==
    /\ pn_figure \in Figures
    /\ pn_text = PrintFigure(pn_figure)
    /\ pn_result = EmptyDict
    /\ IdleExcept("pn")

\* One implementation's parse_number is called on the matched text.
ParseNumber(impl) ==
    /\ impl \notin DOMAIN pn_result
    /\ pn_result' = Put(pn_result, impl, ParseNumberOf(impl, pn_text))
    /\ UNCHANGED <<pn_figure, pn_text>>
    /\ Frame("pn")

PnNext == \E impl \in ParseNumberImpls : ParseNumber(impl)

SpecParseNumber == PnInit /\ [][PnNext]_vars

\* The parse_number functions of the three Hong Kong extractors.
HkParseNumberImpls == ParseNumberImpls \ {"FinancialReportParser"}

\* C2 (as amended): for a figure printed with thousands separators and/or in
\* parentheses for a negative, the parse_number of each Hong Kong extractor
\* returns the figure's signed value; FinancialReportParser.parse_number
\* returns the value of a figure printed without parentheses and None for
\* one printed in parentheses.
C2_ParseNumberAmended ==
    /\ \A impl \in HkParseNumberImpls \cap DOMAIN pn_result :
          pn_result[impl] = Some(FigureValue(pn_figure))
    /\ "FinancialReportParser" \in DOMAIN pn_result =>
          pn_result["FinancialReportParser"] =
              (IF pn_figure.neg THEN None ELSE Some(FigureValue(pn_figure)))

\* C2 witness: "(1,515.50)" has been parsed by every implementation and the
\* Hong Kong extractors returned -1515.5.
C2_Witness ==
    /\ pn_text = <<"(", "1", ",", "5", "1", "5", ".", "5", "0", ")">>
    /\ DOMAIN pn_result = ParseNumberImpls
    /\ \A impl \in HkParseNumberImpls :
          pn_result[impl] = Some([num |-> -15155, scale |-> 1])

\* C2 (original statement): every parse_number implementation, including
\* FinancialReportParser.parse_number, returns the correct signed value.
C2_EveryImplSignedValue ==
    \A impl \in DOMAIN pn_result :
        pn_result[impl] = Some(FigureValue(pn_figure))

(***************************************************************************)
(* Unit detection of the Hong Kong extractors: extract_hk_v2               *)
(* (extract_financials, save_to_db) and batch_hk_stocks                    *)
(* (extract_financials_from_pdf).  Characters of a document text:          *)
(*   qian1 U+5343, yuan2 U+5143, bai3 U+767E, wan4 U+4E07, wan4t U+842C,   *)
(*   yi4 U+4EBF, yi4t U+5104; "million" and "Million" stand for the        *)
(*   English word in lower case and capitalised; "x" is any other text.    *)
(***************************************************************************)

\* str.lower on one character.
LowerChar(c) ==
    CASE c = "Million" -> "million"
      [] c = "Annual" -> "annual"
      [] c = "Report" -> "report"
      [] c = "Results" -> "results"
      [] c = "Full" -> "full"
      [] c = "Year" -> "year"
      [] OTHER -> c

\* str.lower
StrLower(s) == [i \in 1..Len(s) |-> LowerChar(s[i])]

\* A mutant of DetectUnitV2: the hundred-million test comes first.
DetectUnitV2_yi_first(text) ==
    IF ContainsSub(text, <<"yi4t">>) \/ ContainsSub(text, <<"yi4">>)
    THEN 100000000
    ELSE IF ContainsSub(text, <<"qian1", "yuan2">>) THEN 1000
    ELSE 1000000

\* extract_hk_v2.extract_financials: data['unit']
DetectUnitV2(text) ==
    IF ContainsSub(text, <<"qian1", "yuan2">>) THEN 1000
    ELSE IF ContainsSub(text, <<"bai3", "wan4t">>)
              \/ ContainsSub(text, <<"bai3", "wan4">>)
    THEN 1000000
    ELSE IF ContainsSub(text, <<"yi4t">>) \/ ContainsSub(text, <<"yi4">>)
    THEN 100000000
    ELSE 1000000

\* batch_hk_stocks.extract_financials_from_pdf: unit_multiplier
DetectUnitBatch(text) ==
    IF ContainsSub(text, <<"bai3", "wan4">>)
         \/ ContainsSub(StrLower(text), <<"million">>)
    THEN 1000000
    ELSE IF ContainsSub(text, <<"qian1">>) THEN 1000
    ELSE IF ContainsSub(text, <<"yi4t">>) \/ ContainsSub(text, <<"yi4">>)
    THEN 100000000
    ELSE 1

\* The scale each extractor starts from.
DefaultUnit(extractor) ==
    IF extractor = "extract_hk_v2" THEN 1000000 ELSE 1

\* extract_hk_v2: extract_financials keeps a matched revenue above 100 and
\* the detected unit; save_to_db stores revenue * unit.
ExtractAndSaveV2(text, raw) ==
    LET unit == DetectUnitV2(text)
        revenue == IF Truthy(raw) /\ FloatGtInt(Val(raw), 100)
                   THEN raw ELSE None
    IN  [unit |-> unit,
         revenue |-> IF Truthy(revenue)
                     THEN Some(FloatTimesUnit(Val(revenue), unit)) ELSE None]

\* batch_hk_stocks.extract_financials_from_pdf: a matched revenue above 1000
\* is kept as val * unit_multiplier.
ExtractBatch(text, raw) ==
    LET unit_multiplier == DetectUnitBatch(text)
    IN  [unit |-> unit_multiplier,
         revenue |-> IF Truthy(raw) /\ FloatGtInt(Val(raw), 1000)
                     THEN Some(FloatTimesUnit(Val(raw), unit_multiplier))
                     ELSE None]

UnitExtractors == {"extract_hk_v2", "batch_hk_stocks"}

ExtractOf(extractor, text, raw) ==
    IF extractor = "extract_hk_v2" THEN ExtractAndSaveV2(text, raw)
    ELSE ExtractBatch(text, raw)

\* Input domain of SpecUnit: texts of at most MaxUnitTextLen characters and
\* the value parse_number returned for the matched revenue figure.
MaxUnitTextLen == 3

UnitTextChars == {"qian1", "yuan2", "bai3", "wan4", "wan4t", "yi4", "yi4t",
                  "million", "Million", "x"}

RawFigures == { Some(Float(500)), Some(Float(2000)) }

UnitInit ==
    /\ unit_text \in SeqsUpTo(UnitTextChars, 0, MaxUnitTextLen)
    /\ unit_raw \in RawFigures
    /\ unit_saved = EmptyDict
    /\ IdleExcept("unit")

\* One extractor processes the document.
ExtractUnit(extractor) ==
    /\ extractor \notin DOMAIN unit_saved
    /\ unit_saved' = Put(unit_saved, extractor,
                         ExtractOf(extractor, unit_text, unit_raw))
    /\ UNCHANGED <<unit_text, unit_raw>>
    /\ Frame("unit")

UnitNext == \E extractor \in UnitExtractors : ExtractUnit(extractor)

SpecUnit == UnitInit /\ [][UnitNext]_vars

\* The unit words of the claim.
HasYi(text) == ContainsSub(text, <<"yi4t">>) \/ ContainsSub(text, <<"yi4">>)
HasMillion(text) ==
    \/ ContainsSub(text, <<"bai3", "wan4t">>)
    \/ ContainsSub(text, <<"bai3", "wan4">>)
    \/ ContainsSub(StrLower(text), <<"million">>)

\* The unit words each extractor looks for, in the order it tests them.
HasThousandOf(extractor, text) ==
    IF extractor = "extract_hk_v2"
    THEN ContainsSub(text, <<"qian1", "yuan2">>)
    ELSE ContainsSub(text, <<"qian1">>)
HasMillionOf(extractor, text) ==
    IF extractor = "extract_hk_v2"
    THEN ContainsSub(text, <<"bai3", "wan4t">>)
           \/ ContainsSub(text, <<"bai3", "wan4">>)
    ELSE ContainsSub(text, <<"bai3", "wan4">>)
           \/ ContainsSub(StrLower(text), <<"million">>)

\* The extractor has run and the stored revenue is the raw figure times k.
ScaledBy(extractor, k) ==
    /\ unit_saved[extractor].unit = k
    /\ unit_saved[extractor].revenue # None
          => unit_saved[extractor].revenue
                 = Some(FloatTimesUnit(Val(unit_raw), k))

\* C3 (as amended): unit detection is a cascade by priority.  In
\* extract_hk_v2 the thousand-yuan word wins, then the million word
\* (simplified or traditional), then the hundred-million word; in
\* batch_hk_stocks the million word (simplified, or "million" in any case)
\* wins, then the thousand character, then the hundred-million word.  So a
\* text with the hundred-million word is scaled by 1e8 only when no word of
\* higher priority occurs, a text with a million word the extractor looks
\* for is scaled by 1e6 unless (in extract_hk_v2) the thousand-yuan word
\* occurs, and a text with none of the extractor's unit words keeps the
\* default scale.
C3_UnitCascade ==
    \A e \in DOMAIN unit_saved :
        /\ (e = "extract_hk_v2" /\ HasThousandOf(e, unit_text))
              => ScaledBy(e, 1000)
        /\ (HasMillionOf(e, unit_text)
               /\ ~(e = "extract_hk_v2" /\ HasThousandOf(e, unit_text)))
              => ScaledBy(e, 1000000)
        /\ (e = "batch_hk_stocks" /\ HasThousandOf(e, unit_text)
               /\ ~HasMillionOf(e, unit_text))
              => ScaledBy(e, 1000)
        /\ (HasYi(unit_text) /\ ~HasThousandOf(e, unit_text)
               /\ ~HasMillionOf(e, unit_text))
              => ScaledBy(e, 100000000)
        /\ (~HasYi(unit_text) /\ ~HasThousandOf(e, unit_text)
               /\ ~HasMillionOf(e, unit_text))
              => ScaledBy(e, DefaultUnit(e))

\* C3 witness: both extractors have processed a text holding only the
\* hundred-million word and stored the revenue scaled by 1e8.
C3_Witness ==
    /\ unit_text = <<"x", "yi4">>
    /\ unit_raw = Some(Float(2000))
    /\ DOMAIN unit_saved = UnitExtractors
    /\ \A e \in UnitExtractors :
          unit_saved[e].revenue = Some([num |-> 2, scale |-> -11])

\* C3 (original statement): a text with the hundred-million word is scaled
\* by 1e8, a text with a million word by 1e6, and a text with no unit word
\* keeps the default, whichever other unit words occur.
C3_UnitWhicheverOthers ==
    \A e \in DOMAIN unit_saved :
        /\ HasYi(unit_text) => ScaledBy(e, 100000000)
        /\ HasMillion(unit_text) => ScaledBy(e, 1000000)
        /\ (~HasYi(unit_text) /\ ~HasMillion(unit_text)
               /\ ~ContainsSub(unit_text, <<"qian1">>))
              => ScaledBy(e, DefaultUnit(e))

(***************************************************************************)
(* fetch_financial_from_reports.calculate_derived_indicators.  The values  *)
(* of `data` are exact fractions n/d in lowest terms; a division by zero   *)
(* (Python's ZeroDivisionError) yields the fraction 0/0, which marks the   *)
(* call as having raised.                                                  *)
(***************************************************************************)

RECURSIVE Gcd(_, _)
Gcd(a, b) == IF b = 0 THEN a ELSE Gcd(b, a % b)

Abs(x) == IF x < 0 THEN 0 - x ELSE x

\* The fraction n/d (d > 0) in lowest terms.
Rat(n, d) ==
    LET g == Gcd(Abs(n), d) IN [n |-> n \div g, d |-> d \div g]

ZeroDivisionError == [n |-> 0, d |-> 0]

\* a / b
RatDiv(a, b) ==
    IF a.d = 0 \/ b.d = 0 \/ b.n = 0 THEN ZeroDivisionError
    ELSE IF b.n > 0 THEN Rat(a.n * b.d, a.d * b.n)
    ELSE Rat(0 - a.n * b.d, a.d * (0 - b.n))

\* a - b
RatSub(a, b) ==
    IF a.d = 0 \/ b.d = 0 THEN ZeroDivisionError
    ELSE Rat(a.n * b.d - b.n * a.d, a.d * b.d)

\* a * 100
RatTimes100(a) == IF a.d = 0 THEN ZeroDivisionError ELSE Rat(a.n * 100, a.d)

\* A mutant of GetTruthy: the test is for the key only (`k in result`), so
\* a zero operand passes it.
GetTruthy_key_only(result, k) == k \in DOMAIN result

\* `result.get(k)` used as a condition: the key is there and its value is
\* neither None nor 0.
GetTruthy(result, k) == k \in DOMAIN result /\ result[k].n # 0

\* `result.get(k) is None`
GetIsNone(result, k) == k \notin DOMAIN result

\* The statements of calculate_derived_indicators, each from the dict
\* `result` before it to the dict after it.
ComputeRoe(result) ==
    IF /\ GetIsNone(result, "roe")
       /\ GetTruthy(result, "net_profit")
       /\ GetTruthy(result, "total_equity")
    THEN Put(result, "roe", RatTimes100(
             RatDiv(result["net_profit"], result["total_equity"])))
    ELSE result

ComputeNetMargin(result) ==
    IF /\ GetIsNone(result, "net_margin")
       /\ GetTruthy(result, "net_profit")
       /\ GetTruthy(result, "revenue")
    THEN Put(result, "net_margin", RatTimes100(
             RatDiv(result["net_profit"], result["revenue"])))
    ELSE result

ComputeAssetTurnover(result) ==
    IF GetTruthy(result, "revenue") /\ GetTruthy(result, "total_assets")
    THEN Put(result, "asset_turnover",
             RatDiv(result["revenue"], result["total_assets"]))
    ELSE result

ComputeEquityMultiplier(result) ==
    IF GetTruthy(result, "total_assets") /\ GetTruthy(result, "total_equity")
    THEN Put(result, "equity_multiplier",
             RatDiv(result["total_assets"], result["total_equity"]))
    ELSE result

ComputeAssetLiabilityRatio(result) ==
    IF GetTruthy(result, "total_liabilities") /\ GetTruthy(result, "total_assets")
    THEN Put(result, "asset_liability_ratio", RatTimes100(
             RatDiv(result["total_liabilities"], result["total_assets"])))
    ELSE result

ComputeCurrentRatio(result) ==
    IF /\ GetTruthy(result, "current_assets")
       /\ GetTruthy(result, "current_liabilities")
    THEN Put(result, "current_ratio",
             RatDiv(result["current_assets"], result["current_liabilities"]))
    ELSE result

ComputeQuickRatio(result) ==
    IF /\ GetTruthy(result, "current_assets")
       /\ GetTruthy(result, "inventory")
       /\ GetTruthy(result, "current_liabilities")
    THEN Put(result, "quick_ratio",
             RatDiv(RatSub(result["current_assets"], result["inventory"]),
                    result["current_liabilities"]))
    ELSE result

\* calculate_derived_indicators(data): [raised, result].
calculate_derived_indicators(data) ==
    LET result ==
          Then(Then(Then(Then(Then(Then(Then(data,
              ComputeRoe), ComputeNetMargin), ComputeAssetTurnover),
              ComputeEquityMultiplier), ComputeAssetLiabilityRatio),
              ComputeCurrentRatio), ComputeQuickRatio)
    IN  Then(result,
             LAMBDA r : [raised |-> \E k \in DOMAIN r : r[k] = ZeroDivisionError,
                         result |-> r])

\* Input domain of SpecDerived: `data` as parse_pdf builds it, a dict from
\* some of the parser's fields to the values read (never None).  The fields
\* that no derived ratio reads are left out.
DerivedInputFields ==
    <<"roe", "net_margin", "net_profit", "revenue", "total_assets",
      "total_equity", "total_liabilities", "current_assets",
      "current_liabilities", "inventory">>

\* The values a field is read with: every field that some ratio divides
\* by, and inventory, can also be read as zero.
DerivedInputValues(field) ==
    IF field \in {"revenue", "total_assets", "total_equity",
                  "current_liabilities", "inventory"}
    THEN { Rat(0, 1), Rat(2, 1) }
    ELSE { Rat(2, 1) }

\* The dicts over the first n fields.
RECURSIVE DerivedInputsOver(_)
DerivedInputsOver(n) ==
    IF n = 0 THEN { EmptyDict }
    ELSE LET rest == DerivedInputsOver(n - 1)
             field == DerivedInputFields[n]
         IN  rest \cup { Put(d, field, v) :
                            d \in rest, v \in DerivedInputValues(field) }

DerivedInputs == DerivedInputsOver(Len(DerivedInputFields))

CdiInit ==
    /\ cdi_data \in DerivedInputs
    /\ cdi_out = None
    /\ IdleExcept("cdi")

\* One call of calculate_derived_indicators.
CalculateDerivedIndicators ==
    /\ cdi_out = None
    /\ cdi_out' = Some(calculate_derived_indicators(cdi_data))
    /\ UNCHANGED cdi_data
    /\ Frame("cdi")

CdiNext == CalculateDerivedIndicators

SpecDerived == CdiInit /\ [][CdiNext]_vars

\* The derived ratios with the operands each needs; the last operand of
\* each list is the denominator.
DerivedRatios ==
    {"roe", "net_margin", "asset_turnover", "equity_multiplier",
     "asset_liability_ratio", "current_ratio", "quick_ratio"}

OperandsOf(ratio) ==
    CASE ratio = "roe" -> <<"net_profit", "total_equity">>
      [] ratio = "net_margin" -> <<"net_profit", "revenue">>
      [] ratio = "asset_turnover" -> <<"revenue", "total_assets">>
      [] ratio = "equity_multiplier" -> <<"total_assets", "total_equity">>
      [] ratio = "asset_liability_ratio" -> <<"total_liabilities", "total_assets">>
      [] ratio = "current_ratio" -> <<"current_assets", "current_liabilities">>
      [] ratio = "quick_ratio" ->
             <<"current_assets", "inventory", "current_liabilities">>

\* Every operand of the ratio is in data and its denominator is not zero.
Computable(data, ratio) ==
    LET ops == OperandsOf(ratio) IN
    /\ \A i \in 1..Len(ops) : ops[i] \in DOMAIN data
    /\ data[ops[Len(ops)]].n # 0

\* C4 (as amended): calculate_derived_indicators never raises, and a
\* derived ratio is in the result only if it was computed from operands
\* that are all present with a non-zero denominator, or it is a ROE or net
\* margin that was already in the input (an extracted value), which is
\* passed through unchanged whatever the operands are.
C4_DerivedGuardsAmended ==
    cdi_out # None =>
        /\ ~Val(cdi_out).raised
        /\ \A ratio \in DerivedRatios \cap DOMAIN Val(cdi_out).result :
              \/ Computable(cdi_data, ratio)
              \/ /\ ratio \in {"roe", "net_margin"}
                 /\ ratio \in DOMAIN cdi_data
                 /\ Val(cdi_out).result[ratio] = cdi_data[ratio]

\* C4 witness: the call has returned for data whose total_assets is zero
\* and whose total_equity is missing; the ratios that need them are absent
\* and the current ratio was computed.
C4_Witness ==
    /\ cdi_out # None
    /\ cdi_data = [revenue |-> Rat(2, 1), net_profit |-> Rat(2, 1),
                   total_assets |-> Rat(0, 1), total_liabilities |-> Rat(2, 1),
                   current_assets |-> Rat(2, 1),
                   current_liabilities |-> Rat(2, 1)]
    /\ DerivedRatios \cap DOMAIN Val(cdi_out).result
          = {"net_margin", "current_ratio"}

\* C4 (original statement): the call never raises and a derived ratio is in
\* the result only if it was computed from present operands with a non-zero
\* denominator.
C4_DerivedOnlyComputed ==
    cdi_out # None =>
        /\ ~Val(cdi_out).raised
        /\ \A ratio \in DerivedRatios \cap DOMAIN Val(cdi_out).result :
              Computable(cdi_data, ratio)

(***************************************************************************)
(* batch_hk_stocks.download_hk_reports and find_pdf_files                  *)
(***************************************************************************)

\* Regular expressions (module re) as sequences of elements: one character
\* of a set, an optional character of a set (x?), and any run of
\* characters (.*).
One(chars) == [kind |-> "one", chars |-> chars]
Opt(chars) == [kind |-> "opt", chars |-> chars]
AnyStar == [kind |-> "star", chars |-> {}]

\* A keyword without metacharacters.
Lits(word) == [k \in 1..Len(word) |-> One({word[k]})]

\* \d{4}
FourDigits == [k \in 1..4 |-> One(DigitChars)]

\* Element e accepts character c; with re.IGNORECASE letters are compared
\* in lower case.
Accepts(e, c, ignorecase) ==
    IF ignorecase
    THEN LowerChar(c) \in { LowerChar(x) : x \in e.chars }
    ELSE c \in e.chars

\* The elements of pat from index i on match s from position j on.
RECURSIVE MatchHere(_, _, _, _, _)
MatchHere(pat, i, s, j, ignorecase) ==
    IF i > Len(pat) THEN TRUE
    ELSE IF pat[i].kind = "one"
    THEN /\ j <= Len(s)
         /\ Accepts(pat[i], s[j], ignorecase)
         /\ MatchHere(pat, i + 1, s, j + 1, ignorecase)
    ELSE IF pat[i].kind = "opt"
    THEN \/ /\ j <= Len(s)
            /\ Accepts(pat[i], s[j], ignorecase)
            /\ MatchHere(pat, i + 1, s, j + 1, ignorecase)
         \/ MatchHere(pat, i + 1, s, j, ignorecase)
    ELSE \E k \in j..(Len(s) + 1) : MatchHere(pat, i + 1, s, k, ignorecase)

\* re.search(pat, s, flags) is not None
re_search(pat, s, ignorecase) ==
    \E j \in 1..(Len(s) + 1) : MatchHere(pat, 1, s, j, ignorecase)

\* find_pdf_files: annual_keywords
annual_keywords ==
    << Lits(<<"quan2", "nian2", "ye4", "ji4">>),
       Lits(<<"nian2", "du4", "ye4", "ji4">>),
       Lits(<<"nian2", "du4", "bao4t", "gao4">>),
       Lits(<<"nian2", "bao4t">>),
       Lits(<<"nian2", "du4", "bao4", "gao4">>),
       Lits(<<"Annual", " ", "Report">>),
       Lits(<<"Annual", " ", "Results">>),
       Lits(<<"Full", " ", "Year", " ", "Results">>),
       Lits(<<"jie2", "zhi4">>) \o <<AnyStar>> \o Lits(<<"nian2", "du4">>),
       Lits(<<"nian2", "du4", "zong1", "he2", "ye4", "ji4">>),
       FourDigits \o Lits(<<"cai2">>) \o <<Opt({"wu4"})>>
           \o Lits(<<"nian2", "du4", "ye4", "ji4">>),
       FourDigits \o Lits(<<"cai2">>) \o <<Opt({"zheng4"})>>
           \o Lits(<<"nian2", "du4", "ye4", "ji4">>),
       Lits(<<"1", "2", "yue4", "3", "1", "ri4", "zhi3", "nian2", "du4">>),
       Lits(<<"shi2", "er4", "yue4", "san1", "shi2", "yi1", "ri4", "zhi3",
              "nian2", "du4">>),
       Lits(<<"san1", "yue4", "di3", "zhi3">>) \o <<AnyStar>>
           \o Lits(<<"cai2">>) \o <<Opt({"wu4"})>> \o Lits(<<"nian2", "du4">>),
       Lits(<<"san1", "yue4", "di3", "zhi3">>) \o <<AnyStar>>
           \o Lits(<<"cai2">>) \o <<Opt({"zheng4"})>> \o Lits(<<"nian2", "du4">>) >>

\* find_pdf_files: exclude_keywords
exclude_keywords == << <<"gu3", "xi1">>, <<"pai4", "xi1">> >>

\* glob(data_dir / f'{stock_code}_*'): the directory name starts with the
\* stock code and an underscore.
DirMatches(dir, stock_code) ==
    Len(dir) >= 2 /\ dir[1] = stock_code /\ dir[2] = "_"

\* Path(dir_path).glob('*.pdf') over the directories of the stock.
StockPdfs(files, stock_code) ==
    { f \in files : /\ DirMatches(f.dir, stock_code)
                    /\ f.name[Len(f.name)] = ".pdf" }

\* find_pdf_files, first search: an annual keyword and no exclude keyword.
IsAnnual(fname) ==
    \E k \in 1..Len(annual_keywords) : re_search(annual_keywords[k], fname, TRUE)

ShouldExclude(fname) ==
    \E k \in 1..Len(exclude_keywords) : ContainsSub(fname, exclude_keywords[k])

\* find_pdf_files, second search: a year-end date or a fiscal year.
IsYearEnd(fname) ==
    /\ \/ ContainsSub(fname, <<"shi2", "er4", "yue4", "san1", "shi2", "yi1", "ri4">>)
       \/ ContainsSub(fname, <<"December", " ", "3", "1">>)
       \/ ContainsSub(fname, <<"1", "2", "yue4", "3", "1", "ri4">>)
       \/ re_search(FourDigits \o Lits(<<"cai2">>), fname, FALSE)
    /\ ~ContainsSub(fname, <<"gu3", "xi1">>)
    /\ ~ContainsSub(fname, <<"pai4", "xi1">>)

\* find_pdf_files, last search: a results announcement with a year in its
\* name.
IsResultsWithYear(fname) ==
    /\ ContainsSub(fname, <<"ye4", "ji4">>)
    /\ ~ContainsSub(fname, <<"gu3", "xi1">>)
    /\ re_search(<<One({"2"}), One({"0"}), One({"1", "2"}), One(DigitChars)>>,
                 fname, FALSE)

Stocks == {"00700", "09988"}

File(dir, name) == [dir |-> dir, name |-> name]

\* The files that can be under data: annual reports and results of 00700
\* (in Chinese, traditional Chinese and lower-case English), a results
\* announcement that declares a dividend, a year-end statement, interim
\* results, a notice, a text file, and an annual report of 09988.
Catalogue ==
    LET d7 == <<"00700", "_", "reports">>  d9 == <<"09988", "_", "reports">> IN
    { File(d7, <<"2", "0", "2", "3", "nian2", "du4", "bao4", "gao4", ".pdf">>),
      File(d7, <<"2", "0", "2", "2", "nian2", "bao4t", ".pdf">>),
      File(d7, <<"annual", " ", "report", " ", "2", "0", "2", "1", ".pdf">>),
      File(d7, <<"2", "0", "2", "3", "nian2", "du4", "ye4", "ji4",
                 "pai4", "xi1", ".pdf">>),
      File(d7, <<"2", "0", "2", "3", "nian2", "1", "2", "yue4", "3", "1", "ri4",
                 ".pdf">>),
      File(d7, <<"2", "0", "2", "3", "zhong1", "qi1", "ye4", "ji4", ".pdf">>),
      File(d7, <<"2", "0", "2", "2", "zhong1", "qi1", "ye4", "ji4",
                 "pai4", "xi1", ".pdf">>),
      File(d7, <<"notice", ".pdf">>),
      File(d7, <<"2", "0", "2", "0", "nian2", "du4", "bao4", "gao4", ".txt">>),
      File(d9, <<"2", "0", "2", "3", "nian2", "du4", "bao4", "gao4", ".pdf">>) }

\* The files of the catalogue that each search of find_pdf_files accepts
\* by name.
FirstSearch == { f \in Catalogue : IsAnnual(f.name) /\ ~ShouldExclude(f.name) }
SecondSearch == { f \in Catalogue : IsYearEnd(f.name) }
LastSearch == { f \in Catalogue : IsResultsWithYear(f.name) }

\* A mutant of find_pdf_files: the three searches are all made.
find_pdf_files_every_search(files, stock_code) ==
    StockPdfs(files, stock_code) \cap (FirstSearch \cup SecondSearch \cup LastSearch)

\* find_pdf_files(stock_code): the files of the returned list (the callers
\* modelled use its length).
find_pdf_files(files, stock_code) ==
    LET all == StockPdfs(files, stock_code)
        first == all \cap FirstSearch
        second == IF first = {} THEN all \cap SecondSearch ELSE first
    IN  IF second = {} THEN all \cap LastSearch ELSE second

\* What the analyze_company.py subprocess can do on the files: it writes
\* up to MaxNewFiles new files and subprocess.run ends in one of the
\* outcomes.
MaxNewFiles == 1

SubprocessOutcomes ==
    {"returncode_0", "returncode_1", "TimeoutExpired", "Exception"}

SubprocessRuns(files) ==
    { [added |-> added, outcome |-> outcome] :
        added \in { a \in SUBSET (Catalogue \ files) : Cardinality(a) <= MaxNewFiles },
        outcome \in SubprocessOutcomes }

\* download_hk_reports after the skip tests: the subprocess is started.
RunSubprocess(files, stock_code) ==
    { [files |-> files \cup run.added, started |-> TRUE,
       ok |-> CASE run.outcome = "returncode_0" -> TRUE
                [] run.outcome = "returncode_1" -> FALSE
                [] run.outcome = "TimeoutExpired" ->
                       StockPdfs(files \cup run.added, stock_code) # {}
                [] run.outcome = "Exception" -> FALSE] :
      run \in SubprocessRuns(files) }

\* download_hk_reports: the PDF counts from which the download is skipped.
MinAllPdfs == 3
MinAnnualPdfs == 3

\* A mutant of download_hk_reports: the download is skipped only above the
\* counts.
download_hk_reports_above(files, stock_code) ==
    IF Cardinality(StockPdfs(files, stock_code)) > MinAllPdfs
    THEN { [files |-> files, started |-> FALSE, ok |-> TRUE] }
    ELSE IF Cardinality(find_pdf_files(files, stock_code)) > MinAnnualPdfs
    THEN { [files |-> files, started |-> FALSE, ok |-> TRUE] }
    ELSE RunSubprocess(files, stock_code)

\* download_hk_reports(stock_code) on the files under data: the possible
\* outcomes, each the files afterwards, whether the subprocess was started,
\* and the value returned.
download_hk_reports(files, stock_code) ==
    IF Cardinality(StockPdfs(files, stock_code)) >= MinAllPdfs
    THEN { [files |-> files, started |-> FALSE, ok |-> TRUE] }
    ELSE IF Cardinality(find_pdf_files(files, stock_code)) >= MinAnnualPdfs
    THEN { [files |-> files, started |-> FALSE, ok |-> TRUE] }
    ELSE RunSubprocess(files, stock_code)

\* Bound of SpecDownload: calls of download_hk_reports in a behaviour.
MaxCalls == 2

DlInit ==
    /\ dl_files \in SUBSET Catalogue
    /\ dl_result = None
    /\ dl_runs = 0
    /\ dl_calls = 0
    /\ IdleExcept("dl")

\* One call download_hk_reports(stock_code).
DownloadHkReports(stock_code) ==
    /\ dl_calls < MaxCalls
    /\ \E r \in download_hk_reports(dl_files, stock_code) :
         /\ dl_files' = r.files
         /\ dl_runs' = IF r.started THEN dl_runs + 1 ELSE dl_runs
         /\ dl_result' = Some([stock_code |-> stock_code, ok |-> r.ok])
    /\ dl_calls' = dl_calls + 1
    /\ Frame("dl")

DlNext == \E stock_code \in Stocks : DownloadHkReports(stock_code)

SpecDownload == DlInit /\ [][DlNext]_vars

\* C5: a call of download_hk_reports for a stock whose data directories
\* hold at least 3 documents that find_pdf_files matches starts no
\* subprocess, leaves the files as they are and returns True; as the files
\* are unchanged, so does every further call.
C5_IdempotentDownload ==
    [][ \A stock_code \in Stocks :
          ( /\ dl_calls' = dl_calls + 1
            /\ Val(dl_result').stock_code = stock_code
            /\ Cardinality(find_pdf_files(dl_files, stock_code)) >= 3 )
          => /\ dl_files' = dl_files
             /\ dl_runs' = dl_runs
             /\ Val(dl_result').ok ]_vars

\* C5 witness: two calls were made for 00700 with three matching documents
\* under data; no subprocess was started and the last call returned True.
C5_Witness ==
    /\ dl_calls = 2
    /\ dl_runs = 0
    /\ dl_result = Some([stock_code |-> "00700", ok |-> TRUE])
    /\ Cardinality(find_pdf_files(dl_files, "00700")) = 3

(***************************************************************************)
(* generate_metrics_table.MetricsTableGenerator._sort_report_keys          *)
(***************************************************************************)

\* A mutant of REPORT_TYPE_ORDER: the annual report comes last.
REPORT_TYPE_ORDER_annual_last == [annual |-> 4, q3 |-> 1, semi |-> 2, q1 |-> 3]

\* MetricsTableGenerator.REPORT_TYPE_ORDER
REPORT_TYPE_ORDER == [annual |-> 0, q3 |-> 1, semi |-> 2, q1 |-> 3]

\* sort_key(key) of _sort_report_keys: the tuple (-year, type_order).  A
\* report type is one character of the model.
sort_key(key) ==
    LET parts == SplitChar(key, "_")
        year == IF IsDigitStr(parts[1]) THEN DigitsToInt(parts[1]) ELSE 0
        report_type == IF Len(parts) > 1 THEN parts[2] ELSE <<"annual">>
        type_order ==
            IF Len(report_type) = 1 /\ report_type[1] \in DOMAIN REPORT_TYPE_ORDER
            THEN REPORT_TYPE_ORDER[report_type[1]]
            ELSE 99
    IN  <<0 - year, type_order>>

\* a < b for two sort keys (tuple comparison).
TupleLess(a, b) == a[1] < b[1] \/ (a[1] = b[1] /\ a[2] < b[2])

\* key put into a list sorted by sort_key, behind the keys that do not
\* compare greater (sorted is stable).
RECURSIVE InsertByKey(_, _)
InsertByKey(key, out) ==
    IF out = <<>> THEN <<key>>
    ELSE IF TupleLess(sort_key(key), sort_key(Head(out)))
    THEN <<key>> \o out
    ELSE <<Head(out)>> \o InsertByKey(key, Tail(out))

\* _sort_report_keys(keys): sorted(keys, key=sort_key)
RECURSIVE sort_report_keys(_)
sort_report_keys(keys) ==
    IF keys = <<>> THEN <<>>
    ELSE InsertByKey(keys[Len(keys)],
                     sort_report_keys(SubSeq(keys, 1, Len(keys) - 1)))

\* Bound of SpecSortKeys: the periods of the financial data.
MaxKeys == 3

ReportYears == {2023, 2024}
ReportTypes == {"annual", "q3", "semi", "q1"}
Periods == [year : ReportYears, type : ReportTypes]

\* str(n) for n >= 0.
RECURSIVE IntToDigits(_)
IntToDigits(n) ==
    LET d == <<"0", "1", "2", "3", "4", "5", "6", "7", "8", "9">>[(n % 10) + 1]
    IN  IF n < 10 THEN <<d>> ELSE IntToDigits(n \div 10) \o <<d>>

\* The key f"{year}_{report_type}" of a period.
PeriodKey(p) == IntToDigits(p.year) \o <<"_", p.type>>

\* The lists of up to MaxKeys different periods (the keys of a dict).
PeriodLists ==
    { ps \in SeqsUpTo(Periods, 0, MaxKeys) :
        \A i, j \in 1..Len(ps) : i # j => ps[i] # ps[j] }

SrkInit ==
    /\ srk_periods \in PeriodLists
    /\ srk_keys = [i \in 1..Len(srk_periods) |-> PeriodKey(srk_periods[i])]
    /\ srk_sorted = None
    /\ IdleExcept("srk")

\* MetricsTableGenerator.__init__: self.sorted_keys is computed.
SortReportKeys ==
    /\ srk_sorted = None
    /\ srk_sorted' = Some(sort_report_keys(srk_keys))
    /\ UNCHANGED <<srk_periods, srk_keys>>
    /\ Frame("srk")

SrkNext == SortReportKeys

SpecSortKeys == SrkInit /\ [][SrkNext]_vars

\* The period whose key is key.
PeriodOf(key) == CHOOSE p \in Periods : PeriodKey(p) = key

\* C6: the sorted keys are the given keys, each once, ordered by year
\* descending and, within one year, the annual report before the quarterly
\* reports.
C6_SortedByYearThenAnnual ==
    srk_sorted # None =>
        LET out == Val(srk_sorted) IN
        /\ Len(out) = Len(srk_keys)
        /\ \A i \in 1..Len(srk_keys) : \E j \in 1..Len(out) : out[j] = srk_keys[i]
        /\ \A i, j \in 1..Len(out) :
              i < j =>
                 \/ PeriodOf(out[i]).year > PeriodOf(out[j]).year
                 \/ /\ PeriodOf(out[i]).year = PeriodOf(out[j]).year
                    /\ PeriodOf(out[j]).type # "annual"

\* C6 witness: the keys 2024_q3, 2023_annual, 2024_annual were sorted into
\* 2024_annual, 2024_q3, 2023_annual.
C6_Witness ==
    /\ srk_periods = << [year |-> 2024, type |-> "q3"],
                        [year |-> 2023, type |-> "annual"],
                        [year |-> 2024, type |-> "annual"] >>
    /\ srk_sorted = Some(<< <<"2", "0", "2", "4", "_", "annual">>,
                            <<"2", "0", "2", "4", "_", "q3">>,
                            <<"2", "0", "2", "3", "_", "annual">> >>)

(***************************************************************************)
(* fetch_xueqiu_discussions.analyze_sentiment and analyze_discussions      *)
(***************************************************************************)

POSITIVE_KEYWORDS ==
    << <<"kan4", "hao3">>, <<"li4", "hao3">>, <<"zeng1", "zhang3c">>,
       <<"chao1", "yu4", "qi1">>, <<"zhang3">>, <<"niu2">>,
       <<"mai3", "ru4">>, <<"tui1", "jian4">>, <<"you1", "xiu4">>,
       <<"qiang2", "jin4">>, <<"tu1", "po4">>, <<"chuang4", "xin1", "gao1">>,
       <<"jia1", "cang1">>, <<"chao1c", "di3">>, <<"ji1", "hui4">>,
       <<"qian2", "li4l">>, <<"cheng2", "zhang3c">>, <<"jia4", "zhi2">>,
       <<"di1", "gu1">>, <<"long2", "tou2">> >>

NEGATIVE_KEYWORDS ==
    << <<"kan4", "kong1">>, <<"li4", "kong1">>, <<"xia4", "die1">>,
       <<"bu4", "ji2", "yu4", "qi1">>, <<"die1">>, <<"xiong2">>,
       <<"mai4", "chu1">>, <<"jian3", "chi2">>, <<"feng1", "xian3">>,
       <<"wei1", "ji1">>, <<"kui1", "sun3">>, <<"bao4b", "lei2">>,
       <<"ge1", "rou4">>, <<"tao4", "lao2">>, <<"gao1", "gu1">>,
       <<"pao4", "mo4">>, <<"beng1", "pan2">>, <<"jian4s", "ding3">>,
       <<"qing1", "cang1">>, <<"jing3", "ti4">> >>

\* A mutant of KeywordCount: every place where a keyword stands is counted.
KeywordCount_occurrences(keywords, content) ==
    Cardinality({ <<k, i>> \in (1..Len(keywords)) \X (1..Len(content)) :
                    MatchesAt(content, keywords[k], i) })

\* sum(1 for kw in keywords if kw in content)
KeywordCount(keywords, content) ==
    Cardinality({ k \in 1..Len(keywords) : ContainsSub(content, keywords[k]) })

\* analyze_sentiment(content)
analyze_sentiment(content) ==
    LET positive_count == KeywordCount(POSITIVE_KEYWORDS, content)
        negative_count == KeywordCount(NEGATIVE_KEYWORDS, content)
    IN  IF positive_count > negative_count THEN "positive"
        ELSE IF negative_count > positive_count THEN "negative"
        ELSE "neutral"

\* A mutant of Round2: the digits after the second decimal are cut off.
Round2_truncate(n, d) ==
    LET q == (100 * Abs(n)) \div d
    IN  Rat(IF n < 0 THEN 0 - q ELSE q, 100)

\* round(n / d, 2) for d > 0: the nearest multiple of 0.01, a tie going to
\* the even one.
Round2(n, d) ==
    LET q == (100 * Abs(n)) \div d
        r == (100 * Abs(n)) % d
        h == IF 2 * r > d \/ (2 * r = d /\ q % 2 = 1) THEN q + 1 ELSE q
    IN  Rat(IF n < 0 THEN 0 - h ELSE h, 100)

\* Bound of SpecSentiment: the posts of a discussion list.
MaxPosts == 10

\* The texts of the posts: bullish, bearish (two keywords), both a bullish
\* and a bearish keyword, no keyword, empty, and two bearish keywords
\* against one bullish.
PostContents ==
    { <<"kan4", "hao3">>,
      <<"xia4", "die1">>,
      <<"zhang3", "die1">>,
      <<"gong1", "gao4">>,
      <<>>,
      <<"kan4", "hao3", "xia4", "die1">> }

AdTotal == ad_sentiment.positive + ad_sentiment.negative + ad_sentiment.neutral

AdInit ==
    /\ ad_sentiment = NoSentiment
    /\ ad_score = None
    /\ IdleExcept("ad")

\* analyze_discussions, one iteration of `for disc in discussions` on a
\* post with the given content.
AnalyzePost(content) ==
    /\ ad_score = None
    /\ AdTotal < MaxPosts
    /\ ad_sentiment' = [ad_sentiment EXCEPT ![analyze_sentiment(content)] = @ + 1]
    /\ UNCHANGED ad_score
    /\ Frame("ad")

\* analyze_discussions after the loop (or at once for an empty list): the
\* score is set and the analysis returned.
ReturnAnalysis ==
    /\ ad_score = None
    /\ ad_score' = Some(IF AdTotal > 0
                        THEN Round2(ad_sentiment.positive - ad_sentiment.negative,
                                    AdTotal)
                        ELSE Rat(0, 1))
    /\ UNCHANGED ad_sentiment
    /\ Frame("ad")

AdNext ==
    \/ \E content \in PostContents : AnalyzePost(content)
    \/ ReturnAnalysis

SpecSentiment == AdInit /\ [][AdNext]_vars

\* The score is within [-1, 1].
ScoreInRange(score) == 0 - score.d <= score.n /\ score.n <= score.d

RECURSIVE FirstFourDigits(_, _)
FirstFourDigits(filename, from) ==
    IF from + 3 > Len(filename) THEN None
    ELSE IF \A k \in 0..3 : filename[from + k] \in DigitChars
    THEN Some(SubSeq(filename, from, from + 3))
    ELSE FirstFourDigits(filename, from + 1)

extract_year_from_filename(filename) == FirstFourDigits(filename, 1)

\* The PDFs that can be in the report directories, in the order in which
\* parse_all_quarterly_reports takes them: the directories in the order of
\* REPORT_TYPE_DIRS (annual, semi, q1, q3), the files of one directory in
\* the order of sorted().  The annual directory can hold a 2023 report, its
\* corrected edition, and a report without a year in its name.
ReportPdfs ==
    << [report_type |-> "annual",
        name |-> <<"2", "0", "2", "3", "nian2", "nian2", "du4", "bao4", "gao4",
                   ".pdf">>],
       [report_type |-> "annual",
        name |-> <<"2", "0", "2", "3", "nian2", "nian2", "du4", "bao4", "gao4",
                   "(fw", "geng1", "zheng4c", "hou4", ")fw", ".pdf">>],
       [report_type |-> "annual",
        name |-> <<"nian2", "du4", "bao4", "gao4", ".pdf">>],
       [report_type |-> "semi",
        name |-> <<"2", "0", "2", "3", "nian2", "ban4", "nian2", "du4", "bao4",
                   "gao4", ".pdf">>],
       [report_type |-> "q1",
        name |-> <<"2", "0", "2", "4", "nian2", "di4", "yi1", "ji4q", "du4",
                   "bao4", "gao4", ".pdf">>],
       [report_type |-> "q3",
        name |-> <<"2", "0", "2", "4", "nian2", "di4", "san1", "ji4q", "du4",
                   "bao4", "gao4", ".pdf">>] >>

\* An indicator extracted from a document, with where it was found.
Extracted(value, page, line) ==
    [value |-> value, source |-> [page |-> page, line |-> line]]

\* An indicator computed by calculate_derived_indicators.
Calculated(value) ==
    [value |-> value, source |-> [type |-> "calculated"]]

\* What parse_pdf_with_source can give as result['indicators'] for a
\* document: nothing, revenue and total assets, or another revenue only.
ParsedIndicators ==
    { EmptyDict,
      [revenue |-> Extracted(Rat(2, 1), 1, 8),
       total_assets |-> Extracted(Rat(4, 1), 2, 15)],
      [revenue |-> Extracted(Rat(6, 1), 1, 9)] }

\* The derived fields parse_all_quarterly_reports adds to the indicators.
QuarterlyDerivedFields ==
    <<"asset_turnover", "equity_multiplier", "asset_liability_ratio",
      "current_ratio", "quick_ratio">>

\* A mutant of AddDerived: a derived field is recorded like an extracted
\* one, with a page and a line, and whether or not the field is held.
RECURSIVE AddDerived_with_page(_, _, _)
AddDerived_with_page(indicators, derived, n) ==
    IF n = 0 THEN indicators
    ELSE LET field == QuarterlyDerivedFields[n] IN
         Then(AddDerived_with_page(indicators, derived, n - 1),
              LAMBDA before :
                 IF field \in DOMAIN derived
                 THEN Put(before, field, Extracted(derived[field], 1, 1))
                 ELSE before)

\* The indicators with the derived fields of `derived` added that they do
\* not hold yet, fields 1..n of QuarterlyDerivedFields.
RECURSIVE AddDerived(_, _, _)
AddDerived(indicators, derived, n) ==
    IF n = 0 THEN indicators
    ELSE LET field == QuarterlyDerivedFields[n] IN
         Then(AddDerived(indicators, derived, n - 1),
              LAMBDA before :
                 IF field \in DOMAIN derived /\ field \notin DOMAIN before
                 THEN Put(before, field, Calculated(derived[field]))
                 ELSE before)

\* The body of `for pdf_path in sorted(pdf_files)` for one PDF whose
\* parsing gives `indicators`: all_data afterwards.
ParseOnePdf(all_data, pdf, indicators) ==
    LET year == extract_year_from_filename(pdf.name) IN
    IF year = None THEN all_data
    ELSE IF indicators = EmptyDict THEN all_data
    ELSE LET key == Val(year) \o <<"_", pdf.report_type>>
             simple_data == [k \in DOMAIN indicators |-> indicators[k].value]
             derived == calculate_derived_indicators(simple_data).result
         IN  Put(all_data, key,
                 [report_type |-> pdf.report_type,
                  year |-> DigitsToInt(Val(year)),
                  filename |-> pdf.name,
                  indicators |-> AddDerived(indicators, derived,
                                            Len(QuarterlyDerivedFields))])

\* The order of the characters of the keys (a report type is one
\* character of the model): '0' < ... < '9' < 'a...' < 'q1' < 'q3' < 's...'.
KeyCharOrder ==
    <<"0", "1", "2", "3", "4", "5", "6", "7", "8", "9",
      "annual", "q1", "q3", "semi">>

CharOrd(c) == CHOOSE k \in 1..Len(KeyCharOrder) : KeyCharOrder[k] = c

\* a < b for two strings.
RECURSIVE StrLess(_, _)
StrLess(a, b) ==
    IF b = <<>> THEN FALSE
    ELSE IF a = <<>> THEN TRUE
    ELSE IF Head(a) # Head(b) THEN CharOrd(Head(a)) < CharOrd(Head(b))
    ELSE StrLess(Tail(a), Tail(b))

\* The sort key of parse_all_quarterly_reports: (year string, type string).
quarterly_sort_key(key) ==
    LET parts == SplitChar(key, "_") IN <<parts[1], parts[2]>>

\* a > b for two such sort keys.
QuarterlyKeyGreater(a, b) ==
    StrLess(b[1], a[1]) \/ (a[1] = b[1] /\ StrLess(b[2], a[2]))

\* sorted(keys, key=..., reverse=True), by insertion.
RECURSIVE InsertDescending(_, _)
InsertDescending(key, out) ==
    IF out = <<>> THEN <<key>>
    ELSE IF QuarterlyKeyGreater(quarterly_sort_key(key),
                                quarterly_sort_key(Head(out)))
    THEN <<key>> \o out
    ELSE <<Head(out)>> \o InsertDescending(key, Tail(out))

RECURSIVE SortedDescending(_)
SortedDescending(keys) ==
    IF keys = {} THEN <<>>
    ELSE LET key == CHOOSE k \in keys : TRUE
         IN  InsertDescending(key, SortedDescending(keys \ {key}))

\* The index of the first PDF at or after `from` that is in its directory,
\* Len(ReportPdfs) + 1 when there is none.
RECURSIVE NextPdf(_, _)
NextPdf(docs, from) ==
    IF from > Len(ReportPdfs) THEN from
    ELSE IF docs[from] # None THEN from
    ELSE NextPdf(docs, from + 1)

PqInit ==
    /\ pq_docs \in [1..Len(ReportPdfs) -> {None} \cup { Some(ind) : ind \in ParsedIndicators }]
    /\ pq_next = 1
    /\ pq_all_data = EmptyDict
    /\ pq_returned = None
    /\ IdleExcept("pq")

\* One iteration of the loops over the directories and their PDFs.
ParsePdf ==
    /\ pq_returned = None
    /\ \E this \in { NextPdf(pq_docs, pq_next) } :
         /\ this <= Len(ReportPdfs)
         /\ pq_all_data' = ParseOnePdf(pq_all_data, ReportPdfs[this],
                                       Val(pq_docs[this]))
         /\ pq_next' = this + 1
    /\ UNCHANGED <<pq_docs, pq_returned>>
    /\ Frame("pq")

\* After the loops: the keys are sorted and the dict is returned.
ReturnSortedData ==
    /\ pq_returned = None
    /\ NextPdf(pq_docs, pq_next) > Len(ReportPdfs)
    /\ pq_returned' = Some(SortedDescending(DOMAIN pq_all_data))
    /\ UNCHANGED <<pq_docs, pq_next, pq_all_data>>
    /\ Frame("pq")

PqNext == ParsePdf \/ ReturnSortedData

SpecQuarterly == PqInit /\ [][PqNext]_vars

\* The fields of a period record that were extracted from the document.
ExtractedFields(record) ==
    { f \in DOMAIN record.indicators :
        "page" \in DOMAIN record.indicators[f].source }

\* C8: within a run, a field's extracted value that is recorded for a
\* (year, report type) key is kept by every later step: the key stays, the
\* field stays, and its value is the same.
C8_RecordedNeverOverwritten ==
    [][ \A key \in DOMAIN pq_all_data :
          /\ key \in DOMAIN pq_all_data'
          /\ \A f \in ExtractedFields(pq_all_data[key]) :
                /\ f \in DOMAIN pq_all_data'[key].indicators
                /\ pq_all_data'[key].indicators[f].value
                      = pq_all_data[key].indicators[f].value ]_vars

(***************************************************************************)
(* The table financials of financials.db and the three functions that      *)
(* save into it: batch_hk_stocks.save_to_database,                         *)
(* extract_hk_financials.save_to_db and extract_hk_v2.save_to_db.          *)
(***************************************************************************)

\* d.get(k): None for a missing key (a key holding None is a missing key).
Get(d, k) == IF k \in DOMAIN d THEN Some(d[k]) ELSE None

\* d with key k set to the optional value, None removing the key.
SetOpt(d, k, opt) ==
    IF opt = None THEN [x \in DOMAIN d \ {k} |-> d[x]] ELSE Put(d, k, Val(opt))

\* round(a / b, 2) and round(a / b * 100, 2)
RoundedRatio(a, b) ==
    LET x == RatDiv(a, b) IN Round2(x.n, x.d)

RoundedPercent(a, b) ==
    LET x == RatTimes100(RatDiv(a, b)) IN Round2(x.n, x.d)

\* data with key k set to value when both operands are truthy.
WithRatio(data, k, a, b, value) ==
    IF GetTruthy(data, a) /\ GetTruthy(data, b) THEN Put(data, k, value) ELSE data

\* extract_hk_financials.extract_financials_from_text: the derived entries
\* added to the extracted figures.
DeriveHk(figures) ==
    Then(Then(Then(figures,
        LAMBDA d : WithRatio(d, "net_margin", "revenue", "net_profit",
                       RoundedPercent(d["net_profit"], d["revenue"]))),
        LAMBDA d : WithRatio(d, "roe", "total_equity", "net_profit",
                       RoundedPercent(d["net_profit"], d["total_equity"]))),
        LAMBDA d : WithRatio(d, "total_liabilities", "total_assets", "total_equity",
                       RatSub(d["total_assets"], d["total_equity"])))

\* extract_hk_v2.extract_financials: the ratios added to the extracted
\* figures; gross is the gross profit matched in the text, or None.
DeriveV2(figures, gross) ==
    Then(Then(Then(figures,
        LAMBDA d : IF GetTruthy(d, "revenue") /\ gross # None /\ Val(gross).n # 0
                   THEN Put(d, "gross_margin", RoundedPercent(Val(gross), d["revenue"]))
                   ELSE d),
        LAMBDA d : WithRatio(d, "net_margin", "revenue", "net_profit",
                       RoundedPercent(d["net_profit"], d["revenue"]))),
        LAMBDA d : WithRatio(d, "roe", "total_equity", "net_profit",
                       RoundedPercent(d["net_profit"], d["total_equity"])))

\* batch_hk_stocks.extract_financials_from_pdf: the derived entries added
\* to the extracted figures.
DeriveBatch(figures) ==
    Then(Then(Then(Then(figures,
        LAMBDA d : WithRatio(d, "net_margin", "net_profit", "revenue",
                       RoundedPercent(d["net_profit"], d["revenue"]))),
        LAMBDA d : WithRatio(d, "roe", "net_profit", "total_equity",
                       RoundedPercent(d["net_profit"], d["total_equity"]))),
        LAMBDA d : WithRatio(d, "asset_turnover", "revenue", "total_assets",
                       RoundedRatio(d["revenue"], d["total_assets"]))),
        LAMBDA d : WithRatio(d, "equity_multiplier", "total_assets", "total_equity",
                       RoundedRatio(d["total_assets"], d["total_equity"])))

\* row with the columns cols[1..n] set to the entries of data, NULL for a
\* missing entry.
RECURSIVE SetColumns(_, _, _, _)
SetColumns(row, cols, data, n) ==
    IF n = 0 THEN row
    ELSE Then(SetColumns(row, cols, data, n - 1),
              LAMBDA r : SetOpt(r, cols[n], Get(data, cols[n])))

\* The columns of figures, and source, written by the INSERT OR REPLACE of
\* save_to_database (the key columns, the names and the currency are left
\* out of the rows).
BatchColumns ==
    <<"revenue", "net_profit", "total_assets", "total_equity",
      "total_liabilities", "roe", "gross_margin", "net_margin",
      "asset_turnover", "equity_multiplier", "current_ratio",
      "operating_cash_flow", "source">>

\* The columns written by the UPDATE and by the INSERT of
\* extract_hk_financials.save_to_db.
HkColumns ==
    <<"revenue", "net_profit", "total_assets", "total_equity",
      "total_liabilities", "roe", "net_margin", "source">>

\* The columns written by the UPDATE and by the INSERT of
\* extract_hk_v2.save_to_db.
V2Columns ==
    <<"revenue", "net_profit", "total_assets", "total_equity",
      "total_liabilities", "roe", "gross_margin", "net_margin", "source">>

\* batch_hk_stocks.save_to_database(data): INSERT OR REPLACE, the row of
\* the key is replaced as a whole.
save_to_database(table, key, data) ==
    Put(table, key, SetColumns(EmptyDict, BatchColumns, data, Len(BatchColumns)))

\* extract_hk_financials.save_to_db: UPDATE of the row when there is one,
\* INSERT otherwise.
save_to_db_hk(table, key, data) ==
    Put(table, key,
        SetColumns(IF key \in DOMAIN table THEN table[key] ELSE EmptyDict,
                   HkColumns, data, Len(HkColumns)))

\* x * unit
RatTimes(x, unit) == Rat(x.n * unit, x.d)

\* extract_hk_v2.save_to_db: the figures are multiplied by data['unit'],
\* total_liabilities is computed, then UPDATE or INSERT.
save_to_db_v2(table, key, data) ==
    LET scaled(k) == IF GetTruthy(data, k)
                     THEN Some(RatTimes(data[k], data["unit"])) ELSE None
        revenue == scaled("revenue")
        net_profit == scaled("net_profit")
        total_assets == scaled("total_assets")
        total_equity == scaled("total_equity")
        total_liabilities ==
            IF total_assets # None /\ total_equity # None
            THEN Some(RatSub(Val(total_assets), Val(total_equity))) ELSE None
        values ==
            SetOpt(SetOpt(SetOpt(SetOpt(SetOpt(data,
                "revenue", revenue), "net_profit", net_profit),
                "total_assets", total_assets), "total_equity", total_equity),
                "total_liabilities", total_liabilities)
    IN  Put(table, key,
            SetColumns(IF key \in DOMAIN table THEN table[key] ELSE EmptyDict,
                       V2Columns, values, Len(V2Columns)))

\* Bound of SpecSave: save operations in a behaviour.
MaxSaves == 2

\* The rows of the table: the annual report of one stock for one year.
FinKeys == { <<"00700", 2023>> }

\* The figures an extractor can have matched: each of the four is missing
\* or one of the given amounts (in the unit of the document).
FiguresOver(revenues, net_profits, assets, equities) ==
    { SetOpt(SetOpt(SetOpt(SetOpt(EmptyDict, "revenue", r), "net_profit", p),
             "total_assets", a), "total_equity", e) :
        r \in {None} \cup { Some(Rat(x, 1)) : x \in revenues },
        p \in {None} \cup { Some(Rat(x, 1)) : x \in net_profits },
        a \in {None} \cup { Some(Rat(x, 1)) : x \in assets },
        e \in {None} \cup { Some(Rat(x, 1)) : x \in equities } }

\* batch_hk_stocks keeps figures above 1000, the other two above 100.
BatchFigures == FiguresOver({2000, 4000}, {300}, {8000}, {3000})
HkFigures == FiguresOver({200, 400}, {30}, {800}, {300})

\* extract_hk_v2: the gross profit matched and data['unit'].
GrossProfits == { None, Some(Rat(100, 1)) }
V2Units == { 1000, 1000000 }

FinInit ==
    /\ fin_table = EmptyDict
    /\ fin_gross_of = EmptyDict
    /\ fin_saves = 0
    /\ IdleExcept("fin")

\* The history of a save: the revenue saved with the gross_margin of the
\* row is noted when the save wrote the column gross_margin.
NoteGross(key, writes_gross) ==
    fin_gross_of' =
        IF writes_gross
        THEN Put(fin_gross_of, key, Get(fin_table'[key], "revenue"))
        ELSE IF key \in DOMAIN fin_gross_of THEN fin_gross_of
        ELSE Put(fin_gross_of, key, None)

\* batch_hk_stocks.process_stock saves the data of one annual report.
SaveBatch(key, figures) ==
    /\ fin_saves < MaxSaves
    /\ fin_table' = save_to_database(fin_table, key,
                        Put(DeriveBatch(figures), "source", "batch_hk_stocks"))
    /\ NoteGross(key, TRUE)
    /\ fin_saves' = fin_saves + 1
    /\ Frame("fin")

\* extract_hk_financials.main saves the data of one annual report.
SaveHk(key, figures) ==
    /\ fin_saves < MaxSaves
    /\ fin_table' = save_to_db_hk(fin_table, key,
                        Put(DeriveHk(figures), "source", "extract_hk_financials"))
    /\ NoteGross(key, FALSE)
    /\ fin_saves' = fin_saves + 1
    /\ Frame("fin")

\* extract_hk_v2.main saves the data of one annual report.
SaveV2(key, figures, gross, unit) ==
    /\ fin_saves < MaxSaves
    /\ fin_table' = save_to_db_v2(fin_table, key,
                        Put(Put(DeriveV2(figures, gross), "unit", unit),
                            "source", "extract_hk_v2"))
    /\ NoteGross(key, TRUE)
    /\ fin_saves' = fin_saves + 1
    /\ Frame("fin")

FinNext ==
    \E key \in FinKeys :
        \/ \E figures \in BatchFigures : SaveBatch(key, figures)
        \/ \E figures \in HkFigures : SaveHk(key, figures)
        \/ \E figures \in HkFigures, gross \in GrossProfits, unit \in V2Units :
              SaveV2(key, figures, gross, unit)

SpecSave == FinInit /\ [][FinNext]_vars

\* The column of the row holds the ratio of columns a and b of the row,
\* rounded as the extractors round it.
RatioOfRow(row, column, a, b, percent) ==
    /\ a \in DOMAIN row
    /\ b \in DOMAIN row
    /\ row[b].n # 0
    /\ row[column] = IF percent THEN RoundedPercent(row[a], row[b])
                     ELSE RoundedRatio(row[a], row[b])

\* C9: every derived ratio a row holds was computed from the base values
\* the row holds: roe, net_margin, asset_turnover and equity_multiplier are
\* the ratios of the row's own figures, and gross_margin was saved together
\* with the row's revenue.
C9_DerivedNeverStale ==
    \A key \in DOMAIN fin_table :
       LET row == fin_table[key] IN
       /\ "roe" \in DOMAIN row =>
             RatioOfRow(row, "roe", "net_profit", "total_equity", TRUE)
       /\ "net_margin" \in DOMAIN row =>
             RatioOfRow(row, "net_margin", "net_profit", "revenue", TRUE)
       /\ "asset_turnover" \in DOMAIN row =>
             RatioOfRow(row, "asset_turnover", "revenue", "total_assets", FALSE)
       /\ "equity_multiplier" \in DOMAIN row =>
             RatioOfRow(row, "equity_multiplier", "total_assets", "total_equity", FALSE)
       /\ "gross_margin" \in DOMAIN row =>
             fin_gross_of[key] = Get(row, "revenue")

(***************************************************************************)
(* The pattern search for one field (revenue):                             *)
(* FinancialReportParser.extract_from_text_with_source, the field loop of  *)
(* parse_pdf_with_source, and the revenue loop of                          *)
(* extract_hk_financials.extract_financials_from_text.                     *)
(*                                                                         *)
(* A text is the sequence of the places where a pattern of the field's     *)
(* list matches, in text order; a place is the index of the pattern in the *)
(* list and the string of its group 1.                                     *)
(***************************************************************************)

\* Patterns of the field's list that are modelled (their indices in order).
RevenuePatterns == <<1, 2>>

\* re.search(pattern, text): the index of the first place of the text where
\* the pattern matches, 0 for no match.
RECURSIVE SearchPattern(_, _, _)
SearchPattern(pattern, text, from) ==
    IF from > Len(text) THEN 0
    ELSE IF text[from].pattern = pattern THEN from
    ELSE SearchPattern(pattern, text, from + 1)

\* extract_from_text_with_source(text, field, page_num) with the patterns
\* from index k on: the value with its source (page, place), or None.
RECURSIVE extract_from_text_with_source(_, _, _)
extract_from_text_with_source(text, page_num, k) ==
    IF k > Len(RevenuePatterns) THEN None
    ELSE LET match == SearchPattern(RevenuePatterns[k], text, 1)
             value == IF match = 0 THEN None
                      ELSE FinancialReportParser_parse_number(
                               text[match].value_str, None)
         IN  IF match # 0 /\ value # None
             THEN Some([value |-> Val(value), page |-> page_num, place |-> match])
             ELSE extract_from_text_with_source(text, page_num, k + 1)

\* A mutant of search_pages: the field's patterns are tried one after the
\* other, each over all the pages.
RECURSIVE search_pages_by_pattern(_, _)
search_pages_by_pattern(page_texts, from) ==
    LET first(k) ==
            { p \in 1..Len(page_texts) :
                /\ SearchPattern(RevenuePatterns[k], page_texts[p], 1) # 0
                /\ \A q \in 1..(p - 1) :
                      SearchPattern(RevenuePatterns[k], page_texts[q], 1) = 0 }
        found == { k \in 1..Len(RevenuePatterns) : first(k) # {} }
    IN  IF found = {} THEN None
        ELSE LET k == CHOOSE x \in found : \A y \in found : x <= y
                 p == CHOOSE x \in first(k) : TRUE
                 match == SearchPattern(RevenuePatterns[k], page_texts[p], 1)
                 value == FinancialReportParser_parse_number(
                              page_texts[p][match].value_str, None)
             IN  IF value = None THEN None
                 ELSE Some([value |-> Val(value), page |-> p, place |-> match])

\* parse_pdf_with_source, the loop over page_texts for the field, from page
\* `from` on: the first page that gives a value.
RECURSIVE search_pages(_, _)
search_pages(page_texts, from) ==
    IF from > Len(page_texts) THEN None
    ELSE LET extracted == extract_from_text_with_source(page_texts[from], from, 1)
         IN  IF extracted # None THEN extracted
             ELSE search_pages(page_texts, from + 1)

\* The text of the whole document, and for each of its places the page
\* and the place on the page.
RECURSIVE Flatten(_)
Flatten(page_texts) ==
    IF page_texts = <<>> THEN <<>>
    ELSE Flatten(SubSeq(page_texts, 1, Len(page_texts) - 1))
            \o [i \in 1..Len(page_texts[Len(page_texts)]) |->
                  [pattern |-> page_texts[Len(page_texts)][i].pattern,
                   value_str |-> page_texts[Len(page_texts)][i].value_str,
                   page |-> Len(page_texts), place |-> i]]

\* extract_hk_financials.extract_financials_from_text, the loop over
\* revenue_patterns from index k on, on the text of the whole document.
RECURSIVE extract_revenue_hk(_, _)
extract_revenue_hk(text, k) ==
    IF k > Len(RevenuePatterns) THEN None
    ELSE LET match == SearchPattern(RevenuePatterns[k], text, 1)
             val == IF match = 0 THEN None ELSE parse_number_hk(text[match].value_str)
         IN  IF match # 0 /\ Truthy(val) /\ FloatGtInt(Val(val), 100)
             THEN Some([value |-> Val(val), page |-> text[match].page,
                        place |-> text[match].place])
             ELSE extract_revenue_hk(text, k + 1)

\* Bounds of SpecExtract: the pages of a document and the places of a page
\* where a pattern matches.
MaxPages == 2
MaxPlaces == 2

\* The strings matched as group 1: 150, 50, and a lone comma (matched by
\* [\d,]+, not a number).
ValueStrings == { <<"1", "5", "0">>, <<"5", "0">>, <<",">> }

Places ==
    { [pattern |-> RevenuePatterns[k], value_str |-> v] :
        k \in 1..Len(RevenuePatterns), v \in ValueStrings }

Extractors == {"FinancialReportParser", "extract_hk_financials"}

\* The texts of a page.
PageTexts == UNION { [1..n -> Places] : n \in 0..MaxPlaces }

ExInit ==
    /\ IdleExcept("ex")
    /\ ex_result = EmptyDict
    /\ \E n \in 0..MaxPages : ex_pages \in [1..n -> PageTexts]

\* The revenue an extractor records for the document.
ExtractRevenue(extractor) ==
    /\ extractor \notin DOMAIN ex_result
    /\ ex_result' = Put(ex_result, extractor,
                        IF extractor = "FinancialReportParser"
                        THEN search_pages(ex_pages, 1)
                        ELSE extract_revenue_hk(Flatten(ex_pages), 1))
    /\ UNCHANGED ex_pages
    /\ Frame("ex")

ExNext == \E extractor \in Extractors : ExtractRevenue(extractor)

SpecExtract == ExInit /\ [][ExNext]_vars

\* The first place of a text where the pattern matches, as a set (empty for
\* no match).
FirstPlaces(text, pattern) ==
    { i \in 1..Len(text) :
        /\ text[i].pattern = pattern
        /\ \A j \in 1..(i - 1) : text[j].pattern # pattern }

\* The patterns whose first match on the page gives a number.
UsableOnPage(p) ==
    { k \in 1..Len(RevenuePatterns) :
        \E i \in FirstPlaces(ex_pages[p], RevenuePatterns[k]) :
            FinancialReportParser_parse_number(ex_pages[p][i].value_str, None) # None }

\* The first match of the pattern in the whole document: page and place.
FirstInDocument(pattern) ==
    UNION { { <<p, i>> : i \in FirstPlaces(ex_pages[p], pattern) } :
              p \in { q \in 1..Len(ex_pages) :
                        \A e \in 1..(q - 1) :
                            FirstPlaces(ex_pages[e], pattern) = {} } }

\* The patterns whose first match in the document gives a non-zero number
\* above 100.
UsableInDocument ==
    { k \in 1..Len(RevenuePatterns) :
        \E pos \in FirstInDocument(RevenuePatterns[k]) :
            LET val == parse_number_hk(ex_pages[pos[1]][pos[2]].value_str)
            IN  Truthy(val) /\ FloatGtInt(Val(val), 100) }

Least(S) == CHOOSE x \in S : \A y \in S : x <= y

ParserRecordsByPage ==
    "FinancialReportParser" \in DOMAIN ex_result =>
        LET r == ex_result["FinancialReportParser"]
            pages == { p \in 1..Len(ex_pages) : UsableOnPage(p) # {} }
        IN  IF pages = {} THEN r = None
            ELSE /\ r # None
                 /\ Val(r).page = Least(pages)
                 /\ Val(r).place \in
                       FirstPlaces(ex_pages[Least(pages)],
                                   RevenuePatterns[Least(UsableOnPage(Least(pages)))])
                 /\ Some(Val(r).value) =
                       FinancialReportParser_parse_number(
                           ex_pages[Val(r).page][Val(r).place].value_str, None)

HkRecordsByPattern ==
    "extract_hk_financials" \in DOMAIN ex_result =>
        LET r == ex_result["extract_hk_financials"]
        IN  IF UsableInDocument = {} THEN r = None
            ELSE /\ r # None
                 /\ <<Val(r).page, Val(r).place>> \in
                       FirstInDocument(RevenuePatterns[Least(UsableInDocument)])
                 /\ Some(Val(r).value) =
                       parse_number_hk(ex_pages[Val(r).page][Val(r).place].value_str)

MinValueHk == 100
MinValueV2 == 100
MinValueBatch == 1000

LargeFields == {"revenue", "total_assets", "total_equity"}
ExtractedHkFields == <<"revenue", "net_profit", "total_assets", "total_equity">>

\* The float as a fraction.
FloatToRat(value) ==
    IF value.scale >= 0 THEN Rat(value.num, Pow10(value.scale))
    ELSE Rat(value.num * Pow10(0 - value.scale), 1)

\* A mutant of KeepValue: the large fields are tested with >=.
KeepValue_at_least(field, val, min) ==
    /\ Truthy(val)
    /\ field \in LargeFields =>
          (FloatGtInt(Val(val), min) \/ Val(val) = Float(min))

\* `if val and val > min` for a large field, `if val` for net_profit.
KeepValue(field, val, min) ==
    /\ Truthy(val)
    /\ field \in LargeFields => FloatGtInt(Val(val), min)

\* The matched figures of a field, in pattern order.
MatchesOf(matches, field) ==
    LET own == SelectSeq(matches, LAMBDA m : m.field = field)
    IN  [i \in 1..Len(own) |-> own[i].value_str]

\* `for pattern in <field>_patterns: ...; if <kept>: data[field] = val; break`
\* the value of the first pattern whose figure is kept, None if there is none.
FieldLoop(matches, field, parse(_), min) ==
    LET strs == MatchesOf(matches, field)
        kept == { i \in 1..Len(strs) : KeepValue(field, parse(strs[i]), min) }
    IN  IF kept = {} THEN None
        ELSE Some(FloatToRat(Val(parse(strs[CHOOSE i \in kept : \A j \in kept : i <= j]))))

\* The four field loops of an extractor; scale multiplies a kept value.
RECURSIVE FieldLoops(_, _, _, _, _)
FieldLoops(matches, n, impl, min, scale) ==
    IF n = 0 THEN EmptyDict
    ELSE LET field == ExtractedHkFields[n]
             val == IF impl = "extract_hk_financials"
                    THEN FieldLoop(matches, field, parse_number_hk, min)
                    ELSE IF impl = "extract_hk_v2"
                    THEN FieldLoop(matches, field, parse_number_v2, min)
                    ELSE FieldLoop(matches, field, parse_number_batch, min)
         IN  SetOpt(FieldLoops(matches, n - 1, impl, min, scale), field,
                    IF val = None THEN None ELSE Some(RatTimes(Val(val), scale)))

\* extract_hk_financials.extract_financials_from_text
extract_financials_from_text(matches) ==
    [unit |-> 1,
     data |-> DeriveHk(FieldLoops(matches, 4, "extract_hk_financials", MinValueHk, 1))]

\* extract_hk_v2.extract_financials: the figures are kept as matched, next
\* to data['unit'].
extract_financials(text, matches) ==
    [unit |-> DetectUnitV2(text),
     data |-> DeriveV2(FieldLoops(matches, 4, "extract_hk_v2", MinValueV2, 1), None)]

\* batch_hk_stocks.extract_financials_from_pdf: a kept figure is recorded as
\* val * unit_multiplier.
extract_financials_from_pdf(text, matches) ==
    [unit |-> DetectUnitBatch(text),
     data |-> DeriveBatch(FieldLoops(matches, 4, "batch_hk_stocks", MinValueBatch,
                                     DetectUnitBatch(text)))]

\* Bound of SpecFilter: the matched figures of a document.
MaxMatches == 2

\* Figures as they stand in the text: 0.0, 50, 100, 500, 1,500.
MatchedStrings ==
    { <<"0", ".", "0">>, <<"5", "0">>, <<"1", "0", "0">>, <<"5", "0", "0">>,
      <<"1", ",", "5", "0", "0">> }

MatchEntries ==
    { [field |-> ExtractedHkFields[n], value_str |-> v] :
        n \in 1..Len(ExtractedHkFields), v \in MatchedStrings }

\* No unit word, or thousand yuan (qian1 yuan2).
UnitWords == { <<>>, <<"qian1", "yuan2">> }

HkExtractors == {"extract_hk_financials", "extract_hk_v2", "batch_hk_stocks"}

MfInit ==
    /\ IdleExcept("mf")
    /\ mf_unit_text \in UnitWords
    /\ \E n \in 0..MaxMatches : mf_matches \in [1..n -> MatchEntries]
    /\ mf_data = EmptyDict

\* One extractor processes the document.
ExtractFinancials(impl) ==
    /\ impl \notin DOMAIN mf_data
    /\ mf_data' = Put(mf_data, impl,
          IF impl = "extract_hk_financials"
          THEN extract_financials_from_text(mf_matches)
          ELSE IF impl = "extract_hk_v2"
          THEN extract_financials(mf_unit_text, mf_matches)
          ELSE extract_financials_from_pdf(mf_unit_text, mf_matches))
    /\ UNCHANGED <<mf_unit_text, mf_matches>>
    /\ Frame("mf")

MfNext == \E impl \in HkExtractors : ExtractFinancials(impl)

SpecFilter == MfInit /\ [][MfNext]_vars


\* The number a matched figure of the model stands for.
FigureOf(value_str) ==
    CASE value_str = <<"0", ".", "0">> -> 0
      [] value_str = <<"5", "0">> -> 50
      [] value_str = <<"1", "0", "0">> -> 100
      [] value_str = <<"5", "0", "0">> -> 500
      [] value_str = <<"1", ",", "5", "0", "0">> -> 1500

\* The threshold an extractor tests the matched figure of a large field
\* against, and the factor it applies to a figure it records.
ThresholdOf(impl) == IF impl = "batch_hk_stocks" THEN 1000 ELSE 100
RecordedScaleOf(impl) ==
    IF impl = "batch_hk_stocks" /\ mf_unit_text = <<"qian1", "yuan2">>
    THEN 1000 ELSE 1

\* The unit the figures of the data stand in.
UnitOf(impl) ==
    IF impl = "extract_hk_financials" THEN 1
    ELSE IF mf_unit_text = <<"qian1", "yuan2">> THEN 1000
    ELSE IF impl = "extract_hk_v2" THEN 1000000 ELSE 1

\* The places of the field's figures that pass a test, in pattern order.
Passing(field, Test(_)) ==
    { i \in 1..Len(MatchesOf(mf_matches, field)) :
        Test(FigureOf(MatchesOf(mf_matches, field)[i])) }

\* data[field] is the first passing figure times scale, absent if none passes.
RecordsFirst(data, field, passing, scale) ==
    IF passing = {} THEN field \notin DOMAIN data
    ELSE /\ field \in DOMAIN data
         /\ data[field] =
               Rat(FigureOf(MatchesOf(mf_matches, field)[Least(passing)]) * scale, 1)

RatiosFollow(impl, data) ==
    /\ "net_margin" \in DOMAIN data
          <=> {"revenue", "net_profit"} \subseteq DOMAIN data
    /\ "roe" \in DOMAIN data
          <=> {"total_equity", "net_profit"} \subseteq DOMAIN data
    /\ impl = "batch_hk_stocks" =>
          /\ "asset_turnover" \in DOMAIN data
                <=> {"revenue", "total_assets"} \subseteq DOMAIN data
          /\ "equity_multiplier" \in DOMAIN data
                <=> {"total_assets", "total_equity"} \subseteq DOMAIN data

Phases == <<"download_reports", "extract_financial_data", "generate_index",
            "generate_metrics_tables", "fetch_industry_data", "fetch_xueqiu_data">>

\* What the body of a phase (the import of its module and the call of the
\* module's main) can do: return, or raise.  fetch_reports imports httpx
\* and fetch_industry_data imports pandas at module level (ImportError when
\* missing); fetch_industry_data calls sys.exit(1) when akshare cannot be
\* imported (SystemExit); PyPDF2 and playwright are imported under a guard
\* that sets a flag.
PhaseOutcomes(phase) ==
    {"return", "Exception"}
       \cup (IF phase \in {"download_reports", "fetch_industry_data"}
             THEN {"ImportError"} ELSE {})
       \cup (IF phase = "fetch_industry_data" THEN {"SystemExit"} ELSE {})

\* `except Exception`: SystemExit derives from BaseException only.
CaughtByExceptException(raised) == raised \in {"Exception", "ImportError"}

PlInit ==
    /\ IdleExcept("pl")
    /\ pl_skip_xueqiu \in BOOLEAN
    /\ pl_phase = 1
    /\ pl_results = EmptyDict
    /\ pl_prompt = FALSE
    /\ pl_exit = None

\* One phase function of main: try: import and call; except Exception:
\* print and return the empty result.
RunPhase(outcome) ==
    /\ pl_exit = None
    /\ pl_phase <= Len(Phases)
    /\ ~(Phases[pl_phase] = "fetch_xueqiu_data" /\ pl_skip_xueqiu)
    /\ outcome \in PhaseOutcomes(Phases[pl_phase])
    /\ IF outcome = "return"
       THEN /\ pl_results' = Put(pl_results, Phases[pl_phase], "result")
            /\ pl_phase' = pl_phase + 1
            /\ UNCHANGED pl_exit
       ELSE IF CaughtByExceptException(outcome)
       THEN /\ pl_results' = Put(pl_results, Phases[pl_phase], "empty")
            /\ pl_phase' = pl_phase + 1
            /\ UNCHANGED pl_exit
       ELSE /\ pl_exit' = Some(1)
            /\ UNCHANGED <<pl_results, pl_phase>>
    /\ UNCHANGED <<pl_skip_xueqiu, pl_prompt>>
    /\ Frame("pl")

\* `if not skip_xueqiu: ... else: print(...)` with skip_xueqiu set:
\* xueqiu_analysis stays {}.
SkipXueqiu ==
    /\ pl_exit = None
    /\ pl_phase <= Len(Phases)
    /\ Phases[pl_phase] = "fetch_xueqiu_data"
    /\ pl_skip_xueqiu
    /\ pl_results' = Put(pl_results, Phases[pl_phase], "skipped")
    /\ pl_phase' = pl_phase + 1
    /\ UNCHANGED <<pl_skip_xueqiu, pl_prompt, pl_exit>>
    /\ Frame("pl")

\* Phase 5: the context is prepared and analysis_prompt.txt written.
WritePrompt ==
    /\ pl_exit = None
    /\ pl_phase = Len(Phases) + 1
    /\ ~pl_prompt
    /\ pl_prompt' = TRUE
    /\ UNCHANGED <<pl_skip_xueqiu, pl_phase, pl_results, pl_exit>>
    /\ Frame("pl")

\* main returns.
ReturnFromMain ==
    /\ pl_exit = None
    /\ pl_prompt
    /\ pl_exit' = Some(0)
    /\ UNCHANGED <<pl_skip_xueqiu, pl_phase, pl_results, pl_prompt>>
    /\ Frame("pl")

PlNext ==
    \/ \E outcome \in {"return", "Exception", "ImportError", "SystemExit"} :
          RunPhase(outcome)
    \/ SkipXueqiu
    \/ WritePrompt
    \/ ReturnFromMain

SpecPipeline == PlInit /\ [][PlNext]_vars

\* C12: whatever phases fail, the run is not aborted: a run that has ended
\* has run (or skipped, for --skip-xueqiu) every phase, with an empty result
\* for the failed ones, and has written analysis_prompt.txt.
C12_NoFailureAborts ==
    pl_exit # None =>
        /\ pl_prompt
        /\ DOMAIN pl_results = { Phases[i] : i \in 1..Len(Phases) }


(***************************************************************************)
(* FinancialReportParser.parse_pdf_with_source on documents that fail, and *)
(* the loop of parse_all_quarterly_reports over them.                      *)
(*                                                                         *)
(* A document is [fault, pages]: fault is "none", "missing" (no such       *)
(* file), "open" (open() raises) or "reader" (PyPDF2.PdfReader raises); a  *)
(* page is [raises, text]: whether extract_text raises, and its text,      *)
(* given as in SpecExtract by the places where a revenue pattern matches.  *)
(***************************************************************************)

NoIndicators == [raised |-> None, indicators |-> EmptyDict]

\* A mutant of ReadPages: the loop over the pages ends at the first page
\* whose extraction raises.
RECURSIVE ReadPages_break(_)
ReadPages_break(pages) ==
    IF pages = <<>> THEN <<>>
    ELSE IF Head(pages).raises THEN [i \in 1..Len(pages) |-> <<>>]
    ELSE <<Head(pages).text>> \o ReadPages_break(Tail(pages))

\* `for page_num in range(pages_to_read): try: ... except Exception:
\* continue`: the text of every page, the empty text for a page whose
\* extraction raised (a page without text is not searched).
RECURSIVE ReadPages(_)
ReadPages(pages) ==
    IF pages = <<>> THEN <<>>
    ELSE <<IF Head(pages).raises THEN <<>> ELSE Head(pages).text>>
            \o ReadPages(Tail(pages))

\* The body of the try statement of parse_pdf_with_source.
ParsePdfBody(doc) ==
    IF doc.fault \in {"open", "reader"}
    THEN [raised |-> Some("Exception"), indicators |-> EmptyDict]
    ELSE Then(ReadPages(doc.pages), LAMBDA page_texts :
         Then(search_pages(page_texts, 1), LAMBDA extracted :
             [raised |-> None,
              indicators |->
                 IF extracted = None THEN EmptyDict
                 ELSE [revenue |-> Extracted(FloatToRat(Val(extracted).value),
                                             Val(extracted).page,
                                             Val(extracted).place)]]))

\* parse_pdf_with_source: what it raises (None: it returns) and
\* result['indicators'].
parse_pdf_with_source(doc, pypdf2) ==
    IF ~pypdf2 THEN NoIndicators
    ELSE IF doc.fault = "missing" THEN NoIndicators
    ELSE Then(ParsePdfBody(doc), LAMBDA body :
             IF body.raised # None /\ CaughtByExceptException(Val(body.raised))
             THEN NoIndicators
             ELSE body)

\* Bounds of SpecParsePdf: the PDFs and the pages of a PDF.
MaxPdfs == 2
MaxPdfPages == 2

\* The PDF that is the i-th of the loop: the reports of ReportPdfs after
\* the annual ones (2023 semi, 2024 q1, 2024 q3), cyclically.
QuarterlyPdfs == SelectSeq(ReportPdfs, LAMBDA pdf : pdf.report_type # "annual")
PdfAt(i) == QuarterlyPdfs[1 + ((i - 1) % Len(QuarterlyPdfs))]

PdfPageKinds ==
    { [raises |-> TRUE, text |-> <<>>],
      [raises |-> FALSE, text |-> <<>>],
      [raises |-> FALSE,
       text |-> <<[pattern |-> 1, value_str |-> <<"1", "5", "0">>]>>],
      [raises |-> FALSE,
       text |-> <<[pattern |-> 2, value_str |-> <<"5", "0">>]>>] }

PdfDocuments ==
    { [fault |-> f, pages |-> <<>>] : f \in {"missing", "open", "reader"} }
       \cup UNION { { [fault |-> "none", pages |-> ps] :
                        ps \in [1..n -> PdfPageKinds] } : n \in 0..MaxPdfPages }

PpInit ==
    /\ IdleExcept("pp")
    /\ pp_pypdf2 \in BOOLEAN
    /\ \E n \in 0..MaxPdfs : pp_docs \in [1..n -> PdfDocuments]
    /\ pp_next = 1
    /\ pp_all_data = EmptyDict
    /\ pp_raised = FALSE

\* One iteration of `for pdf_path in sorted(pdf_files)`.
ParseNextPdf ==
    /\ ~pp_raised
    /\ pp_next <= Len(pp_docs)
    /\ \E result \in { parse_pdf_with_source(pp_docs[pp_next], pp_pypdf2) } :
          IF result.raised # None
          THEN /\ pp_raised' = TRUE
               /\ UNCHANGED <<pp_next, pp_all_data>>
          ELSE /\ pp_all_data' = ParseOnePdf(pp_all_data, PdfAt(pp_next),
                                             result.indicators)
               /\ pp_next' = pp_next + 1
               /\ UNCHANGED pp_raised
    /\ UNCHANGED <<pp_pypdf2, pp_docs>>
    /\ Frame("pp")

PpNext == ParseNextPdf

SpecParsePdf == PpInit /\ [][PpNext]_vars


\* The key of the i-th PDF of the loop.
PeriodKeyAt(i) ==
    Val(extract_year_from_filename(PdfAt(i).name)) \o <<"_", PdfAt(i).report_type>>

\* The pages of a document that are read and have a revenue figure.
PagesWithRevenue(doc) ==
    { p \in 1..Len(doc.pages) :
        /\ ~doc.pages[p].raises
        /\ extract_from_text_with_source(doc.pages[p].text, p, 1) # None }

\* C13: no exception leaves parse_pdf_with_source or the loop of
\* parse_all_quarterly_reports.  A document that is missing, cannot be
\* opened or cannot be parsed (or any document when PyPDF2 is missing) gives
\* an empty indicator set and so no period record; a document that is read
\* gives the revenue of its first page that could be read and has one, the
\* pages whose extraction raised being skipped; the loop stops before a
\* remaining document only on an exception, so it takes every document,
\* whatever happened to the documents before.
C13_FailuresContained ==
    /\ ~pp_raised
    /\ \A i \in 1..(pp_next - 1) :
          IF /\ pp_pypdf2
             /\ pp_docs[i].fault = "none"
             /\ PagesWithRevenue(pp_docs[i]) # {}
          THEN /\ PeriodKeyAt(i) \in DOMAIN pp_all_data
               /\ pp_all_data[PeriodKeyAt(i)].indicators["revenue"].source.page
                     = Least(PagesWithRevenue(pp_docs[i]))
          ELSE PeriodKeyAt(i) \notin DOMAIN pp_all_data

\* The first document could not be opened; the second has a page whose
\* extraction raised and then a page with the revenue: the loop is through,
\* with no record for the first and the revenue of page 2 for the second.
C13_Witness ==
    /\ pp_pypdf2
    /\ Len(pp_docs) = 2
    /\ pp_next = 3
    /\ pp_docs[1].fault = "open"
    /\ pp_docs[2].fault = "none"
    /\ Len(pp_docs[2].pages) = 2
    /\ pp_docs[2].pages[1].raises
    /\ DOMAIN pp_all_data = {PeriodKeyAt(2)}
    /\ pp_all_data[PeriodKeyAt(2)].indicators["revenue"].source.page = 2


(***************************************************************************)
(* The downloaders: fetch_reports.download_annual_reports,                 *)
(* fetch_reports.download_reports_by_type and                              *)
(* SecEdgarReports.download_filing.                                        *)
(*                                                                         *)
(* CnInfoReports downloads into script_dir/data/<code>_*; its code is not  *)
(* part of the scripts, so what it leaves there is any set of PDFs that    *)
(* keeps the names already there.  A file is its content, "v1" or "v2".    *)
(* bao4t = U+5831, zhai1 = U+6458, yao4 = U+8981, ban4 = U+534A.           *)
(***************************************************************************)

AnnualReportPdf ==
    <<"2", "0", "2", "3", "nian2", "nian2", "du4", "bao4", "gao4", ".pdf">>
AnnualSummaryPdf ==
    <<"2", "0", "2", "3", "nian2", "nian2", "du4", "bao4", "gao4", "zhai1",
      "yao4", ".pdf">>
HkAnnualPdf == <<"2", "0", "2", "3", "nian2", "bao4t", ".pdf">>
SemiAnnualPdf ==
    <<"2", "0", "2", "3", "nian2", "ban4", "nian2", "du4", "bao4", "gao4",
      ".pdf">>

CnInfoPdfs == {AnnualReportPdf, AnnualSummaryPdf, HkAnnualPdf}

\* The file name download_filing builds for the filing of the model.
FilingName == <<"10-K", "_", "2024-02-01", "_", "0000320193", ".htm">>

FileContents == {"v1", "v2"}

\* download_annual_reports: the test on the file name.
IsAnnualReportFile(market_type, name) ==
    IF market_type = "HK"
    THEN \/ ContainsSub(name, <<"nian2", "du4", "ye4", "ji4">>)
         \/ ContainsSub(name, <<"nian2", "bao4t">>)
         \/ ContainsSub(name, <<"nian2", "du4", "bao4t", "gao4">>)
    ELSE /\ ContainsSub(name, <<"nian2", "du4", "bao4", "gao4">>)
         /\ ~ContainsSub(name, <<"zhai1", "yao4">>)

\* download_reports_by_type: should_copy for the report types annual and
\* semi (HK_REPORT_KEYWORDS for a HK code).
ShouldCopy(market_type, report_type, name) ==
    IF market_type = "HK"
    THEN IF report_type = "annual"
         THEN \/ ContainsSub(name, <<"nian2", "du4", "ye4", "ji4">>)
              \/ ContainsSub(name, <<"nian2", "bao4t">>)
              \/ ContainsSub(name, <<"nian2", "du4", "bao4t", "gao4">>)
              \/ ContainsSub(name, <<"Annual", " ", "Report">>)
              \/ ContainsSub(name, <<"Annual", " ", "Results">>)
         ELSE \/ ContainsSub(name, <<"zhong1", "qi1", "ye4", "ji4">>)
              \/ ContainsSub(name, <<"zhong1", "qi1", "bao4t", "gao4">>)
              \/ ContainsSub(name, <<"ban4", "nian2", "bao4t">>)
    ELSE IF report_type = "annual"
         THEN /\ ContainsSub(name, <<"nian2", "du4", "bao4", "gao4">>)
              /\ ~ContainsSub(name, <<"zhai1", "yao4">>)
         ELSE /\ ContainsSub(name, <<"ban4", "nian2", "du4", "bao4", "gao4">>)
              /\ ~ContainsSub(name, <<"zhai1", "yao4">>)

\* REPORT_TYPE_DIRS
ReportDirOf(report_type) ==
    IF report_type = "annual" THEN "annual_reports" ELSE "semi_annual_reports"

\* The destination after shutil.copy2 of every source file in `names`.
CopyInto(dest, dir, source, names) ==
    [path \in DOMAIN dest \cup { <<dir, name>> : name \in names } |->
        IF path[1] = dir /\ path[2] \in names THEN source[path[2]] ELSE dest[path]]

\* download_annual_reports after the download into script_dir/data: every
\* annual-report file of the source is copied.
download_annual_reports(market_type, source, dest) ==
    CopyInto(dest, "annual_reports", source,
             { name \in DOMAIN source : IsAnnualReportFile(market_type, name) })

\* download_reports_by_type after the download into script_dir/data: a
\* file is copied `if not dst_path.exists()`.
download_reports_by_type(market_type, report_type, source, dest) ==
    CopyInto(dest, ReportDirOf(report_type), source,
             { name \in DOMAIN source :
                 /\ ShouldCopy(market_type, report_type, name)
                 /\ <<ReportDirOf(report_type), name>> \notin DOMAIN dest })

\* What CnInfoReports can leave in script_dir/data.
SourceDirs == UNION { [names -> FileContents] : names \in SUBSET CnInfoPdfs }
DownloadedOver(source) ==
    { s \in SourceDirs : DOMAIN source \subseteq DOMAIN s }

\* The destination directories a run can start from.
DestPaths ==
    { <<"annual_reports", name>> : name \in {AnnualReportPdf, HkAnnualPdf} }
       \cup { <<"sec", FilingName>> }
DestDirs == UNION { [paths -> FileContents] : paths \in SUBSET DestPaths }

\* Bound of SpecCopy: the calls of the downloaders.
MaxDownloads == 2

CpInit ==
    /\ IdleExcept("cp")
    /\ cp_market_type \in {"A", "HK"}
    /\ cp_source \in SourceDirs
    /\ cp_dest \in DestDirs
    /\ cp_requests = 0
    /\ cp_runs = 0

DownloadAnnualReports ==
    /\ cp_runs < MaxDownloads
    /\ \E source \in DownloadedOver(cp_source) :
          /\ cp_source' = source
          /\ cp_dest' = download_annual_reports(cp_market_type, source, cp_dest)
    /\ cp_runs' = cp_runs + 1
    /\ UNCHANGED <<cp_market_type, cp_requests>>
    /\ Frame("cp")

DownloadReportsByType(report_type) ==
    /\ cp_runs < MaxDownloads
    /\ \E source \in DownloadedOver(cp_source) :
          /\ cp_source' = source
          /\ cp_dest' = download_reports_by_type(cp_market_type, report_type,
                                                 source, cp_dest)
    /\ cp_runs' = cp_runs + 1
    /\ UNCHANGED <<cp_market_type, cp_requests>>
    /\ Frame("cp")

\* download_filing: an existing file is returned without a request; else
\* the response is written when its status is 200.
DownloadFiling ==
    /\ cp_runs < MaxDownloads
    /\ IF <<"sec", FilingName>> \in DOMAIN cp_dest
       THEN UNCHANGED <<cp_dest, cp_requests>>
       ELSE /\ cp_requests' = cp_requests + 1
            /\ \E status_code \in {200, 404}, content \in FileContents :
                  cp_dest' = IF status_code = 200
                             THEN Put(cp_dest, <<"sec", FilingName>>, content)
                             ELSE cp_dest
    /\ cp_runs' = cp_runs + 1
    /\ UNCHANGED <<cp_market_type, cp_source>>
    /\ Frame("cp")

CpNext ==
    \/ DownloadAnnualReports
    \/ \E report_type \in {"annual", "semi"} : DownloadReportsByType(report_type)
    \/ DownloadFiling

SpecCopy == CpInit /\ [][CpNext]_vars

\* C14: in every downloader a file whose target name already exists in the
\* destination directory is skipped: no call of a downloader changes a file
\* that is in a destination directory, and download_filing makes no request
\* for a file that is there.
C14_ExistingFilesKept ==
    [][ /\ \A path \in DOMAIN cp_dest :
              path \in DOMAIN cp_dest' /\ cp_dest'[path] = cp_dest[path]
        /\ <<"sec", FilingName>> \in DOMAIN cp_dest => cp_requests' = cp_requests
      ]_vars

(***************************************************************************)
(* The report type directories: the downloaders of fetch_reports on a data *)
(* directory that holds annual and semi-annual reports, starting from an   *)
(* empty output directory.                                                 *)
(***************************************************************************)
HkSemiAnnualPdf == <<"2", "0", "2", "3", "ban4", "nian2", "bao4t", ".pdf">>

\* The reports CnInfoReports can leave in script_dir/data, with their type.
TypedPdfs ==
    [annual |-> {AnnualReportPdf, HkAnnualPdf},
     semi |-> {SemiAnnualPdf, HkSemiAnnualPdf}]

TypedSourceDirs ==
    UNION { [names -> FileContents] :
              names \in SUBSET (TypedPdfs.annual \cup TypedPdfs.semi) }

\* Bound of SpecTypeDirs: the calls of the downloaders.
MaxTypedDownloads == 2

TdInit ==
    /\ IdleExcept("cp")
    /\ cp_market_type \in {"A", "HK"}
    /\ cp_source \in TypedSourceDirs
    /\ cp_dest = EmptyDict
    /\ cp_requests = 0
    /\ cp_runs = 0

\* download_reports_by_type(stock_code, output_dir, report_type): the
\* download adds to script_dir/data, then the files of the type are copied.
DownloadTypedReports(report_type) ==
    /\ cp_runs < MaxTypedDownloads
    /\ \E source \in TypedSourceDirs :
          /\ DOMAIN cp_source \subseteq DOMAIN source
          /\ cp_source' = source
          /\ cp_dest' = download_reports_by_type(cp_market_type, report_type,
                                                 source, cp_dest)
    /\ cp_runs' = cp_runs + 1
    /\ UNCHANGED <<cp_market_type, cp_requests>>
    /\ Frame("cp")

\* download_annual_reports(stock_code, output_dir)
DownloadTypedAnnual ==
    /\ cp_runs < MaxTypedDownloads
    /\ \E source \in TypedSourceDirs :
          /\ DOMAIN cp_source \subseteq DOMAIN source
          /\ cp_source' = source
          /\ cp_dest' = download_annual_reports(cp_market_type, source, cp_dest)
    /\ cp_runs' = cp_runs + 1
    /\ UNCHANGED <<cp_market_type, cp_requests>>
    /\ Frame("cp")

TdNext ==
    \/ \E report_type \in {"annual", "semi"} : DownloadTypedReports(report_type)
    \/ DownloadTypedAnnual

SpecTypeDirs == TdInit /\ [][TdNext]_vars

\* C22: every file of raw_data/annual_reports is an annual report and every
\* file of raw_data/semi_annual_reports is a semi-annual report.
C22_OwnTypeDirectory ==
    \A path \in DOMAIN cp_dest :
        /\ path[1] = "annual_reports" => path[2] \in TypedPdfs.annual
        /\ path[1] = "semi_annual_reports" => path[2] \in TypedPdfs.semi

(***************************************************************************)
(* batch_hk_stocks.find_pdf_files: the returned list.                      *)
(***************************************************************************)

\* The characters of the file names of the catalogue in code point order.
NameCharOrder ==
    <<" ", ".pdf", ".txt", "0", "1", "2", "3", "4", "5", "6", "7", "8", "9",
      "annual", "notice", "report", "ye4", "zhong1", "gao4", "bao4t", "nian2",
      "du4", "xi1", "bao4", "ri4", "yue4", "qi1", "pai4", "ji4">>

NameCharOrd(c) == CHOOSE k \in 1..Len(NameCharOrder) : NameCharOrder[k] = c

\* a < b for two file names.
RECURSIVE NameLess(_, _)
NameLess(a, b) ==
    IF b = <<>> THEN FALSE
    ELSE IF a = <<>> THEN TRUE
    ELSE IF Head(a) # Head(b) THEN NameCharOrd(Head(a)) < NameCharOrd(Head(b))
    ELSE NameLess(Tail(a), Tail(b))

\* sorted(pdfs, key=lambda x: x.name, reverse=True), by insertion.
RECURSIVE InsertByNameDescending(_, _)
InsertByNameDescending(pdf, out) ==
    IF out = <<>> THEN <<pdf>>
    ELSE IF NameLess(Head(out).name, pdf.name) THEN <<pdf>> \o out
    ELSE <<Head(out)>> \o InsertByNameDescending(pdf, Tail(out))

RECURSIVE SortedByNameDescending(_)
SortedByNameDescending(pdfs) ==
    IF pdfs = {} THEN <<>>
    ELSE LET pdf == CHOOSE f \in pdfs : TRUE
         IN  InsertByNameDescending(pdf, SortedByNameDescending(pdfs \ {pdf}))

\* find_pdf_files(stock_code): list(set(pdfs)), sorted.
find_pdf_files_list(files, stock_code) ==
    SortedByNameDescending(find_pdf_files(files, stock_code))

FpInit ==
    /\ IdleExcept("fp")
    /\ fp_files \in SUBSET Catalogue
    /\ fp_found = None

FindPdfFiles(stock_code) ==
    /\ fp_found = None
    /\ fp_found' = Some([stock_code |-> stock_code,
                         pdfs |-> find_pdf_files_list(fp_files, stock_code)])
    /\ UNCHANGED fp_files
    /\ Frame("fp")

FpNext == \E stock_code \in Stocks : FindPdfFiles(stock_code)

SpecFindPdfs == FpInit /\ [][FpNext]_vars

\* The PDFs of the stock that a search accepts.
TierFiles(search) ==
    { f \in fp_files \cap search :
        /\ f.dir[1] = Val(fp_found).stock_code
        /\ f.name[Len(f.name)] = ".pdf" }

\* C15: the list find_pdf_files returns holds the files of one search only:
\* those of the keyword search when it accepts a file, else those of the
\* year-end search when it accepts a file, else those of the results
\* search; each file is in the list once.
C15_OneTierOnly ==
    fp_found # None =>
        LET pdfs == Val(fp_found).pdfs
            returned == { pdfs[i] : i \in 1..Len(pdfs) }
        IN  /\ \A i, j \in 1..Len(pdfs) : pdfs[i] = pdfs[j] => i = j
            /\ returned =
                  (IF TierFiles(FirstSearch) # {} THEN TierFiles(FirstSearch)
                   ELSE IF TierFiles(SecondSearch) # {} THEN TierFiles(SecondSearch)
                   ELSE TierFiles(LastSearch))

\* The directory of 00700 holds an annual report, a year-end statement and
\* interim results; the list returned holds the annual report only.
C15_Witness ==
    /\ fp_found # None
    /\ Val(fp_found).stock_code = "00700"
    /\ TierFiles(FirstSearch) # {}
    /\ TierFiles(SecondSearch) \ TierFiles(FirstSearch) # {}
    /\ TierFiles(LastSearch) \ TierFiles(FirstSearch) # {}
    /\ Len(Val(fp_found).pdfs) = Cardinality(TierFiles(FirstSearch))


(***************************************************************************)
(* The command-line entry points.  sys.argv holds the script name and then *)
(* the arguments, so `len(sys.argv) < n` reads Len(cli_argv) < n - 1.  A    *)
(* process that ends by an uncaught exception exits with status 1.         *)
(***************************************************************************)
CliScripts ==
    {"analyze_company", "analyze_and_summarize", "quick_learn",
     "fetch_reports", "summarize_and_archive"}

\* The number of positional arguments each script reads unconditionally.
RequiredArgs(script) ==
    IF script = "fetch_reports" THEN 2 ELSE 1

CliArgs == {"09992", "list", "load", "--skip-archive"}
IndexStates == {"absent", "valid", "corrupt"}
QuickLearnCommands == {"list", "load", "compare", "summary", "search"}

\* What a run of a script leaves: usage printed, steps taken, exit status.
CliOutcome(usage, work, status) ==
    [usage |-> usage, work |-> work, status |-> status]

\* analyze_company.main: usage and exit(1) before anything else; ok: no
\* phase ended the process
analyze_company_main(argv, ok) ==
    IF Len(argv) + 1 < 2
    THEN CliOutcome(TRUE, {}, 1)
    ELSE CliOutcome(FALSE, {"create_output_directory", "phases"},
                    IF ok THEN 0 ELSE 1)

\* analyze_and_summarize.main: usage and exit(0)
analyze_and_summarize_main(argv, ok) ==
    IF Len(argv) + 1 < 2
    THEN CliOutcome(TRUE, {}, 0)
    ELSE IF ~ok
    THEN CliOutcome(FALSE, {"run_analysis"}, 1)
    ELSE CliOutcome(FALSE, {"run_analysis", "run_summarize_and_archive"}, 0)

\* quick_learn.main: the loader is constructed, which reads the index file,
\* before the arguments are looked at; then usage and exit(0)
quick_learn_main(argv, index) ==
    LET loaded == IF index = "absent" THEN {"CompanyKnowledgeLoader"}
                  ELSE {"CompanyKnowledgeLoader", "json.load"}
    IN  IF index = "corrupt"
        THEN CliOutcome(FALSE, loaded, 1)
        ELSE IF Len(argv) + 1 < 2
        THEN CliOutcome(TRUE, loaded, 0)
        ELSE IF argv[1] = "list"
        THEN CliOutcome(FALSE, loaded \cup {"list"}, 0)
        ELSE IF argv[1] \in {"load", "summary", "search"}
        THEN IF Len(argv) + 1 < 3
             THEN CliOutcome(FALSE, loaded, 1)
             ELSE CliOutcome(FALSE, loaded \cup {argv[1]}, 0)
        ELSE IF argv[1] = "compare"
        THEN IF Len(argv) + 1 < 4
             THEN CliOutcome(FALSE, loaded, 1)
             ELSE CliOutcome(FALSE, loaded \cup {"compare"}, 0)
        ELSE CliOutcome(FALSE, loaded, 1)

\* fetch_reports, under `if __name__ == '__main__'`
fetch_reports_cli(argv, ok) ==
    IF Len(argv) + 1 < 3
    THEN CliOutcome(TRUE, {}, 1)
    ELSE CliOutcome(FALSE, {"main"}, IF ok THEN 0 ELSE 1)

\* summarize_and_archive.main; ok: the analysis directory exists
summarize_and_archive_main(argv, ok) ==
    IF Len(argv) + 1 < 2
    THEN CliOutcome(TRUE, {}, 1)
    ELSE IF ~ok
    THEN CliOutcome(FALSE, {}, 1)
    ELSE CliOutcome(FALSE, {"generate_summary", "archive_raw_data",
                            "create_quick_index"}, 0)

MaxArgs == 2

CliInit ==
    /\ cli_script \in CliScripts
    /\ \E n \in 0..MaxArgs : cli_argv \in [1..n -> CliArgs]
    /\ cli_index \in IndexStates
    /\ cli_usage = FALSE
    /\ cli_work = {}
    /\ cli_exit = None
    /\ IdleExcept("cli")

Exits(outcome) ==
    /\ cli_exit = None
    /\ cli_usage' = outcome.usage
    /\ cli_work' = outcome.work
    /\ cli_exit' = Some(outcome.status)
    /\ UNCHANGED <<cli_script, cli_argv, cli_index>>
    /\ Frame("cli")

AnalyzeCompanyCli ==
    /\ cli_script = "analyze_company"
    /\ \E ok \in BOOLEAN : Exits(analyze_company_main(cli_argv, ok))

AnalyzeAndSummarizeCli ==
    /\ cli_script = "analyze_and_summarize"
    /\ \E ok \in BOOLEAN : Exits(analyze_and_summarize_main(cli_argv, ok))

QuickLearnCli ==
    /\ cli_script = "quick_learn"
    /\ Exits(quick_learn_main(cli_argv, cli_index))

FetchReportsCli ==
    /\ cli_script = "fetch_reports"
    /\ \E ok \in BOOLEAN : Exits(fetch_reports_cli(cli_argv, ok))

SummarizeAndArchiveCli ==
    /\ cli_script = "summarize_and_archive"
    /\ \E ok \in BOOLEAN : Exits(summarize_and_archive_main(cli_argv, ok))

CliNext ==
    \/ AnalyzeCompanyCli
    \/ AnalyzeAndSummarizeCli
    \/ QuickLearnCli
    \/ FetchReportsCli
    \/ SummarizeAndArchiveCli

SpecCli == CliInit /\ [][CliNext]_vars

\* C16: a script that was started with fewer positional arguments than it
\* requires has, when it exits, printed its usage text, taken no other
\* step, and exited with a status other than zero.
C16_MissingArgsExitNonZero ==
    (cli_exit # None /\ Len(cli_argv) < RequiredArgs(cli_script)) =>
        /\ cli_usage
        /\ cli_work = {}
        /\ Val(cli_exit) # 0


(***************************************************************************)
(* Two runs of the pipeline, each a process of its own: analyze_company    *)
(* creates the output directory and saves company_info.json in it, and     *)
(* summarize_and_archive then enters the run into company_index.json of    *)
(* the parent directory.  The processes interleave at their file reads and *)
(* writes.  A directory is (code, day); the parent directory is ("", 0).   *)
(***************************************************************************)
Runs == {1, 2}
RunCodes == {"600519.SH", "00700.HK"}
MaxDays == 2

\* utils.create_output_directory: company_analysis_<code>_<%Y%m%d>
create_output_directory(stock_code, today) ==
    [code |-> stock_code, day |-> today]

ParentDirectory == [code |-> "", day |-> 0]

FileWrite(run, dir, name) ==
    [run |-> run, dir |-> dir, name |-> name]

NoIndex == [c \in RunCodes |-> 0]

RnInit ==
    /\ rn_today = 1
    /\ rn_code \in [Runs -> RunCodes]
    /\ rn_pc = [r \in Runs |-> "start"]
    /\ rn_dir = [r \in Runs |-> None]
    /\ rn_read = [r \in Runs |-> NoIndex]
    /\ rn_index = NoIndex
    /\ rn_written = {}
    /\ IdleExcept("rn")

\* midnight passes
NextDay ==
    /\ rn_today < MaxDays
    /\ rn_today' = rn_today + 1
    /\ UNCHANGED <<rn_code, rn_pc, rn_dir, rn_read, rn_index, rn_written>>
    /\ Frame("rn")

\* analyze_company.main: output_dir = create_output_directory(normalized_code)
CreateOutputDirectory(r) ==
    /\ rn_pc[r] = "start"
    /\ rn_dir' = [rn_dir EXCEPT ![r] =
                     Some(create_output_directory(rn_code[r], rn_today))]
    /\ rn_pc' = [rn_pc EXCEPT ![r] = "created"]
    /\ UNCHANGED <<rn_today, rn_code, rn_read, rn_index, rn_written>>
    /\ Frame("rn")

\* analyze_company.main: save_json(company_info, output_dir / ... )
SaveCompanyInfo(r) ==
    /\ rn_pc[r] = "created"
    /\ rn_written' = rn_written \cup
           {FileWrite(r, Val(rn_dir[r]), "company_info.json")}
    /\ rn_pc' = [rn_pc EXCEPT ![r] = "analysed"]
    /\ UNCHANGED <<rn_today, rn_code, rn_dir, rn_read, rn_index>>
    /\ Frame("rn")

\* create_quick_index: all_companies = json.load(index_file)
ReadQuickIndex(r) ==
    /\ rn_pc[r] = "analysed"
    /\ rn_read' = [rn_read EXCEPT ![r] = rn_index]
    /\ rn_pc' = [rn_pc EXCEPT ![r] = "read"]
    /\ UNCHANGED <<rn_today, rn_code, rn_dir, rn_index, rn_written>>
    /\ Frame("rn")

\* create_quick_index: all_companies[company_code] = index_data; json.dump
WriteQuickIndex(r) ==
    /\ rn_pc[r] = "read"
    /\ rn_index' = [rn_read[r] EXCEPT ![rn_code[r]] = r]
    /\ rn_written' = rn_written \cup
           {FileWrite(r, ParentDirectory, "company_index.json")}
    /\ rn_pc' = [rn_pc EXCEPT ![r] = "done"]
    /\ UNCHANGED <<rn_today, rn_code, rn_dir, rn_read>>
    /\ Frame("rn")

RnNext ==
    \/ NextDay
    \/ \E r \in Runs : CreateOutputDirectory(r)
    \/ \E r \in Runs : SaveCompanyInfo(r)
    \/ \E r \in Runs : ReadQuickIndex(r)
    \/ \E r \in Runs : WriteQuickIndex(r)

SpecRuns == RnInit /\ [][RnNext]_vars

\* C17: two runs never write the same file: every file a run writes lies
\* under the output directory the run created, and the output directories
\* of two runs differ.
C17_RunsShareNoFile ==
    /\ \A w \in rn_written : w.dir = Val(rn_dir[w.run])
    /\ \A r1, r2 \in Runs :
           (r1 # r2 /\ rn_dir[r1] # None /\ rn_dir[r2] # None) =>
               rn_dir[r1] # rn_dir[r2]
    /\ \A w1, w2 \in rn_written :
           w1.run # w2.run => (w1.dir # w2.dir \/ w1.name # w2.name)


(***************************************************************************)
(* The order of the keys parse_all_quarterly_reports returns.              *)
(***************************************************************************)
KeyYear(key) == DigitsToInt(SplitChar(key, "_")[1])
KeyReportType(key) == SplitChar(key, "_")[2][1]

\* C18: the keys of the returned record are in the order of the year,
\* latest first, and within a year in the order of REPORT_TYPE_ORDER, the
\* annual report first.
C18_AnnualFirstWithinYear ==
    pq_returned # None =>
        LET keys == Val(pq_returned) IN
        \A i, j \in 1..Len(keys) :
            i < j =>
                \/ KeyYear(keys[i]) > KeyYear(keys[j])
                \/ /\ KeyYear(keys[i]) = KeyYear(keys[j])
                   /\ REPORT_TYPE_ORDER[KeyReportType(keys[i])]
                         < REPORT_TYPE_ORDER[KeyReportType(keys[j])]


(***************************************************************************)
(* The provenance of the indicators of a period record.                    *)
(***************************************************************************)
\* MetricsTableGenerator._get_indicator_source for a period record: the
\* text of the source column.
get_indicator_source(report, indicator) ==
    IF indicator \notin DOMAIN report.indicators THEN <<"-">>
    ELSE LET source == report.indicators[indicator].source IN
         IF "type" \in DOMAIN source /\ source.type = "calculated"
         THEN <<"ji4s", "suan4">>
         ELSE IF "page" \in DOMAIN source /\ source.page # 0
         THEN <<report.report_type, "P">> \o IntToDigits(source.page)
         ELSE <<"-">>

\* The indicators parse_pdf_with_source gave for the document a period
\* record was made from.
ParsedFor(record) ==
    LET i == CHOOSE k \in 1..Len(ReportPdfs) :
                 ReportPdfs[k].name = record.filename
    IN  Val(pq_docs[i])

\* C19: in every period record, an indicator that was derived has the
\* source type 'calculated' and neither a page nor a line, and is shown as
\* calculated; an indicator that was extracted from the document is held
\* as it was extracted, with its page and its line and without the type
\* 'calculated', and is shown with its page.
C19_ProvenanceTags ==
    \A key \in DOMAIN pq_all_data :
        LET record == pq_all_data[key]
            parsed == ParsedFor(record)
        IN  /\ \A f \in DOMAIN parsed :
                  /\ f \in DOMAIN record.indicators
                  /\ record.indicators[f] = parsed[f]
                  /\ DOMAIN record.indicators[f].source = {"page", "line"}
                  /\ get_indicator_source(record, f) =
                        <<record.report_type, "P">> \o IntToDigits(parsed[f].source.page)
            /\ \A f \in DOMAIN record.indicators \ DOMAIN parsed :
                  /\ record.indicators[f].source = [type |-> "calculated"]
                  /\ get_indicator_source(record, f) = <<"ji4s", "suan4">>

\* A period record holds an extracted and a derived indicator.
C19_Witness ==
    \E key \in DOMAIN pq_all_data :
        LET ind == pq_all_data[key].indicators IN
        /\ "revenue" \in DOMAIN ind
        /\ "page" \in DOMAIN ind["revenue"].source
        /\ "asset_turnover" \in DOMAIN ind
        /\ ind["asset_turnover"].source.type = "calculated"


(***************************************************************************)
(* fetch_xueqiu_discussions.analyze_discussions: the key opinions and the  *)
(* risk mentions.  A post is a record of its content and its likes, None   *)
(* when the post has no key 'likes'.                                       *)
(***************************************************************************)
RiskKeywords ==
    << <<"feng1", "xian3">>, <<"wen4", "ti2">>, <<"dan1", "xin1h">>,
       <<"xia4", "die1">>, <<"kui1", "sun3">>, <<"wei1", "ji1">>,
       <<"bao4b", "lei2">>, <<"jian3", "chi2">>, <<"qing1", "cang1">> >>

OpinionContentLen == 200
KeyOpinionsKept == 10

\* disc.get('likes', 0)
PostLikes(disc) == IF disc.likes = None THEN 0 ELSE Val(disc.likes)

\* The entry appended to a bucket for a post: content[:200] and the likes.
Opinion(disc) ==
    [content |-> SubSeq(disc.content, 1,
                        IF Len(disc.content) < OpinionContentLen
                        THEN Len(disc.content) ELSE OpinionContentLen),
     likes |-> PostLikes(disc)]

\* The entries of the posts 1..n of the list that are among `kept`, in the
\* order of the list.
RECURSIVE Collected(_, _, _)
Collected(discussions, n, kept) ==
    IF n = 0 THEN <<>>
    ELSE Then(Collected(discussions, n - 1, kept),
              LAMBDA before :
                 IF n \in kept
                 THEN Append(before, Opinion(discussions[n]))
                 ELSE before)

\* One entry put into a list that is sorted by likes descending, behind
\* the entries with as many likes.
RECURSIVE InsertByLikes(_, _)
InsertByLikes(entry, out) ==
    IF out = <<>> THEN <<entry>>
    ELSE IF entry.likes > Head(out).likes THEN <<entry>> \o out
    ELSE <<Head(out)>> \o InsertByLikes(entry, Tail(out))

\* list.sort(key=lambda x: x['likes'], reverse=True), which is stable:
\* the entries 1..n of the list.
RECURSIVE SortByLikes(_, _)
SortByLikes(list, n) ==
    IF n = 0 THEN <<>>
    ELSE Then(SortByLikes(list, n - 1),
              LAMBDA sorted : InsertByLikes(list[n], sorted))

\* list[:10]
FirstKept(list) ==
    SubSeq(list, 1, IF Len(list) < KeyOpinionsKept THEN Len(list)
                    ELSE KeyOpinionsKept)

\* A mutant of TopByLikes: the list is cut to ten before it is sorted.
TopByLikes_cut_first(list) ==
    Then(FirstKept(list), LAMBDA kept : SortByLikes(kept, Len(kept)))

\* The list sorted by likes, of which the first ten are kept.
TopByLikes(list) ==
    Then(SortByLikes(list, Len(list)), LAMBDA sorted : FirstKept(sorted))

\* disc['sentiment'] of every post of the list: analyze_sentiment of its
\* content, worked out once for each content of the list.
Sentiments(discussions) ==
    Then([c \in { discussions[i].content : i \in 1..Len(discussions) } |->
             analyze_sentiment(c)],
         LAMBDA of : [i \in 1..Len(discussions) |-> of[discussions[i].content]])

\* The posts of the list that hold a risk keyword.
WithRisk(discussions) ==
    { i \in 1..Len(discussions) :
        \E k \in 1..Len(RiskKeywords) :
            ContainsSub(discussions[i].content, RiskKeywords[k]) }

\* analyze_discussions(discussions)
analyze_discussions(discussions) ==
    Then(Sentiments(discussions), LAMBDA sentiment :
        LET n == Len(discussions)
            positive == { i \in 1..n : sentiment[i] = "positive" }
            negative == { i \in 1..n : sentiment[i] = "negative" }
            neutral == { i \in 1..n : sentiment[i] = "neutral" }
        IN  [total_discussions |-> n,
             sentiment |-> [positive |-> Cardinality(positive),
                            negative |-> Cardinality(negative),
                            neutral |-> Cardinality(neutral),
                            score |-> IF n > 0
                                      THEN Round2(Cardinality(positive)
                                                     - Cardinality(negative), n)
                                      ELSE Rat(0, 1)],
             key_opinions |->
                [bullish |-> TopByLikes(Collected(discussions, n, positive)),
                 bearish |-> TopByLikes(Collected(discussions, n, negative))],
             risk_mentions |->
                TopByLikes(Collected(discussions, n, WithRisk(discussions)))])

\* Bound of SpecOpinions: the posts of a discussion list.
MaxDiscussions == 11

\* The likes of a post: the key is missing, or the number parsed.
LikesValues == {None, Some(2)}

\* The contents of the posts of a list: all bullish, all bearish, bullish
\* and bearish in turn, or bullish, bearish and neutral in turn.
ContentPatterns == {"bullish", "bearish", "turns", "all"}

PatternContent(pattern, i) ==
    LET bullish == <<"kan4", "hao3">>
        bearish == <<"xia4", "die1">>
        neutral == <<"gong1", "gao4">>
    IN  IF pattern = "bullish" THEN bullish
        ELSE IF pattern = "bearish" THEN bearish
        ELSE IF pattern = "turns" THEN (IF i % 2 = 1 THEN bullish ELSE bearish)
        ELSE IF i % 3 = 1 THEN bullish
        ELSE IF i % 3 = 2 THEN bearish
        ELSE neutral

KoInit ==
    /\ \E n \in 0..MaxDiscussions, pattern \in ContentPatterns :
         \E likes \in [1..n -> LikesValues] :
            ko_discussions = [i \in 1..n |->
                                 [content |-> PatternContent(pattern, i),
                                  likes |-> likes[i]]]
    /\ ko_analysis = None
    /\ IdleExcept("ko")

AnalyzeDiscussions ==
    /\ ko_analysis = None
    /\ ko_analysis' = Some(analyze_discussions(ko_discussions))
    /\ UNCHANGED ko_discussions
    /\ Frame("ko")

KoNext == AnalyzeDiscussions

SpecOpinions == KoInit /\ [][KoNext]_vars

\* The posts of the list with the sentiment.
PostsOf(sentiment) ==
    Then(Sentiments(ko_discussions), LAMBDA of :
        { i \in 1..Len(ko_discussions) : of[i] = sentiment })

\* The bucket holds posts of the sentiment, at most ten and all of them
\* when there are no more than ten, sorted by likes descending, and no
\* post of the sentiment that is left out has more likes than one kept.
TopOfSentiment(bucket, sentiment) ==
    \E posts \in {PostsOf(sentiment)} :
        LET kept(v) == Cardinality({ k \in 1..Len(bucket) : bucket[k].likes = v })
            had(v) == Cardinality({ i \in posts : PostLikes(ko_discussions[i]) = v })
            values == { PostLikes(ko_discussions[i]) : i \in posts }
        IN  /\ Len(bucket) <= 10
            /\ Len(bucket) = IF Cardinality(posts) < 10 THEN Cardinality(posts)
                             ELSE 10
            /\ \A k \in 1..Len(bucket) :
                  \E i \in posts : bucket[k] = Opinion(ko_discussions[i])
            /\ \A j, k \in 1..Len(bucket) :
                  j < k => bucket[j].likes >= bucket[k].likes
            /\ \A v \in values :
                  /\ kept(v) <= had(v)
                  /\ kept(v) < had(v) =>
                        \A k \in 1..Len(bucket) : bucket[k].likes >= v

\* C20: after analyze_discussions the bullish and the bearish bucket each
\* hold at most 10 posts of their sentiment, sorted by likes descending,
\* and no post left out of a bucket has strictly more likes than a post
\* kept in it.
C20_TopTenByLikes ==
    ko_analysis # None =>
        /\ TopOfSentiment(Val(ko_analysis).key_opinions.bullish, "positive")
        /\ TopOfSentiment(Val(ko_analysis).key_opinions.bearish, "negative")

\* More than ten bullish posts, the last of them with more likes than the
\* first: the bucket is full, holds the last post and leaves one out.
C20_Witness ==
    /\ ko_analysis # None
    /\ Cardinality(PostsOf("positive")) > 10
    /\ PostLikes(ko_discussions[1]) = 0
    /\ PostLikes(ko_discussions[Len(ko_discussions)]) = 2
    /\ Len(Val(ko_analysis).key_opinions.bullish) = 10
    /\ Val(ko_analysis).key_opinions.bullish[1].likes = 2
    /\ Val(ko_analysis).key_opinions.bullish[10].likes = 0


(***************************************************************************)
(* fetch_xueqiu_discussions.analyze_sentiment on the text of one post.     *)
(***************************************************************************)
\* Bound of SpecPostSentiment: the characters of a post.
MaxContentLen == 3

\* The characters of a post: of the bullish keywords zhang3 and kan4 hao3,
\* of the bearish keywords die1 and xia4 die1, and one of no keyword.
ContentChars == {"zhang3", "kan4", "hao3", "xia4", "die1", "gong1"}

SaInit ==
    /\ \E n \in 0..MaxContentLen : sa_content \in [1..n -> ContentChars]
    /\ sa_result = None
    /\ IdleExcept("sa")

AnalyzeSentiment ==
    /\ sa_result = None
    /\ sa_result' = Some(analyze_sentiment(sa_content))
    /\ UNCHANGED sa_content
    /\ Frame("sa")

SaNext == AnalyzeSentiment

SpecPostSentiment == SaInit /\ [][SaNext]_vars

\* The keywords of the list that stand somewhere in the text.
KeywordsPresent(keywords, content) ==
    { keywords[k] : k \in 1..Len(keywords) } \cap
    { SubSeq(content, i, j) : i, j \in 1..Len(content) }

\* The places of the text where a keyword of the list stands.
KeywordOccurrences(keywords, content) ==
    { <<i, j>> \in (1..Len(content)) \X (1..Len(content)) :
        /\ i <= j
        /\ \E k \in 1..Len(keywords) : SubSeq(content, i, j) = keywords[k] }

Majority(bullish, bearish) ==
    IF bullish > bearish THEN "positive"
    ELSE IF bearish > bullish THEN "negative"
    ELSE "neutral"

\* C21 (as amended): the sentiment of a post is the majority between the
\* number of bullish keywords that stand in its text and the number of
\* bearish keywords that do, a keyword counting once however often it
\* stands in the text: positive when more bullish keywords are present,
\* negative when more bearish ones are, neutral on a tie.
C21_MajorityOfKeywordsPresent ==
    sa_result # None =>
        Val(sa_result) =
            Majority(Cardinality(KeywordsPresent(POSITIVE_KEYWORDS, sa_content)),
                     Cardinality(KeywordsPresent(NEGATIVE_KEYWORDS, sa_content)))

\* A post that names one bullish keyword twice and one bearish keyword
\* once is neutral.
C21_Witness ==
    /\ sa_result = Some("neutral")
    /\ Cardinality(KeywordOccurrences(POSITIVE_KEYWORDS, sa_content)) = 2
    /\ Cardinality(KeywordsPresent(POSITIVE_KEYWORDS, sa_content)) = 1
    /\ Cardinality(KeywordsPresent(NEGATIVE_KEYWORDS, sa_content)) = 1

\* C21 (as stated): the sentiment is the majority between the occurrences
\* of the bullish and of the bearish keywords in the text.
C21_MajorityOfOccurrences ==
    sa_result # None =>
        Val(sa_result) =
            Majority(Cardinality(KeywordOccurrences(POSITIVE_KEYWORDS, sa_content)),
                     Cardinality(KeywordOccurrences(NEGATIVE_KEYWORDS, sa_content)))


(***************************************************************************)
(* fetch_reports.download_reports_and_announcements: the downloaders that  *)
(* are called for a stock code.                                            *)
(***************************************************************************)
\* Bound of SpecMarket: the letters of a ticker.
MaxTickerLen == 3

TickerLetters == {"A", "a", "M"}

TickerSuffixes == { <<>>, <<".", "U", "S">>, <<".", "u", "s">> }

\* US tickers, with and without the suffix, and a code of each other market.
MarketInputs ==
    { letters \o suffix :
        letters \in SeqsUpTo(TickerLetters, 1, MaxTickerLen),
        suffix \in TickerSuffixes }
    \cup { <<"6", "0", "0", "5", "1", "9">>, <<"0", "0", "7", "0", "0">>,
           <<"0", "0", "7", "0", "0", ".", "H", "K">> }

\* The downloaders download_reports_and_announcements calls.
download_reports_and_announcements(stock_code) ==
    LET market_type == normalize_stock_code(stock_code)[3] IN
    IF market_type = "US"
    THEN {"download_sec_reports"}
    ELSE {"download_all_quarterly_reports", "download_announcements"}

DraInit ==
    /\ dra_stock_code \in MarketInputs
    /\ dra_called = None
    /\ IdleExcept("dra")

DownloadReportsAndAnnouncements ==
    /\ dra_called = None
    /\ dra_called' = Some(download_reports_and_announcements(dra_stock_code))
    /\ UNCHANGED dra_stock_code
    /\ Frame("dra")

DraNext == DownloadReportsAndAnnouncements

SpecMarket == DraInit /\ [][DraNext]_vars

\* A US ticker: letters, with or without the suffix .US.
IsUsTicker(stock_code) ==
    \E letters \in SeqsUpTo(TickerLetters, 1, MaxTickerLen),
       suffix \in TickerSuffixes : stock_code = letters \o suffix

\* C23: for a US ticker download_reports_and_announcements calls
\* download_sec_reports and none of the cninfo downloaders.
C23_UsTickersUseSecEdgar ==
    (dra_called # None /\ IsUsTicker(dra_stock_code)) =>
        Val(dra_called) = {"download_sec_reports"}


(***************************************************************************)
(* FinancialReportParser.parse_number with a unit, and the value that      *)
(* extract_from_text_with_source records for a figure that stands before   *)
(* a unit word.  wan4 yuan2 = U+4E07 U+5143, bai3 wan4 = U+767E U+4E07,    *)
(* yuan2 = U+5143, yi4 = U+4EBF.                                           *)
(***************************************************************************)
UnitFigures ==
    { <<"0">>, <<"1">>, <<"5", "0">>, <<"1", ",", "2", "3", "4">>,
      <<"5", "0", ".", "5">>, <<"1", "2", "fwcomma", "0", "0", "0">>,
      <<"-", "3", "0", "0">>, <<"2", "0", "0", "0", "0">> }

UnitWordsOfReports ==
    { None, Some(<<"wan4", "yuan2">>), Some(<<"bai3", "wan4">>),
      Some(<<"yuan2">>), Some(<<"yi4">>), Some(<<"yi4", "yuan2">>) }

UnInit ==
    /\ un_value_str \in UnitFigures
    /\ un_unit \in UnitWordsOfReports
    /\ un_direct = None
    /\ un_recorded = None
    /\ IdleExcept("un")

\* parse_number(value_str, unit)
ParseNumberWithUnit ==
    /\ un_direct = None
    /\ un_direct' = Some(FinancialReportParser_parse_number(
                             un_value_str,
                             IF un_unit = None THEN None ELSE Val(un_unit)))
    /\ UNCHANGED <<un_value_str, un_unit, un_recorded>>
    /\ Frame("un")

\* extract_from_text_with_source on a text in which a pattern matches the
\* figure (group 1) before the unit word: value = parse_number(value_str).
RecordIndicator ==
    /\ un_recorded = None
    /\ un_recorded' = Some(FinancialReportParser_parse_number(un_value_str, None))
    /\ UNCHANGED <<un_value_str, un_unit, un_direct>>
    /\ Frame("un")

UnNext == ParseNumberWithUnit \/ RecordIndicator

SpecUnitNormalize == UnInit /\ [][UnNext]_vars

\* The power of ten that takes a figure in the unit to 1e8 yuan.
UnitExponent(unit) ==
    IF unit = None THEN 0
    ELSE IF Val(unit) = <<"wan4", "yuan2">> THEN 4
    ELSE IF Val(unit) = <<"bai3", "wan4">> THEN 2
    ELSE IF Val(unit) = <<"yuan2">> THEN 8
    ELSE 0

\* The figure of the text in units of 1e8 yuan.
NormalizedFigure ==
    DivPow10(Val(ParseFloat(RemoveSub(RemoveSub(un_value_str, <<",">>),
                                      <<"fwcomma">>))),
             UnitExponent(un_unit))

\* C24: parse_number gives the figure divided by 10,000 for wan4 yuan2, by
\* 100 for bai3 wan4, by 100,000,000 for yuan2 and unchanged for yi4 or no
\* unit, and the value recorded for an indicator is the figure normalised
\* in this way.
C24_UnitNormalized ==
    /\ un_direct # None => Val(un_direct) = Some(NormalizedFigure)
    /\ un_recorded # None => Val(un_recorded) = Some(NormalizedFigure)


(***************************************************************************)
(* Two processes that save into the table financials of financials.db,     *)
(* which batch_hk_stocks.init_database creates with UNIQUE(stock_code,     *)
(* year).  A statement that writes and its commit are one step, as SQLite  *)
(* lets one connection write at a time; the SELECT of save_to_db is a step *)
(* of its own.  A row is its key and three of its columns, 0 for NULL: a   *)
(* save with the data v writes v into the columns it sets.                 *)
(***************************************************************************)
SaveProcs == {1, 2}
SaveKeys == {"00700_2023", "09992_2023"}
SaveData == {1, 2}
SaveDbKinds == {"extract_hk_financials", "extract_hk_v2"}

\* Bound of SpecConcurrentSave: the saves of one process.
MaxProcSaves == 2

RowsOf(rows, key) == { i \in 1..Len(rows) : rows[i].key = key }

\* The columns a save sets, by the function that saves.
ColumnsSet(kind) ==
    IF kind = "batch_hk_stocks"
    THEN {"revenue", "gross_margin", "asset_turnover"}
    ELSE IF kind = "extract_hk_v2" THEN {"revenue", "gross_margin"}
    ELSE {"revenue"}

\* The row an INSERT of the save makes: the other columns are NULL.
NewRow(kind, key, v) ==
    [key |-> key,
     revenue |-> v,
     gross_margin |-> IF "gross_margin" \in ColumnsSet(kind) THEN v ELSE 0,
     asset_turnover |-> IF "asset_turnover" \in ColumnsSet(kind) THEN v ELSE 0]

\* A mutant of InsertRow: the table has no UNIQUE(stock_code, year).
InsertRow_no_unique(rows, row) ==
    [raised |-> FALSE, rows |-> Append(rows, row)]

\* INSERT INTO financials: sqlite3.IntegrityError when the key is there.
InsertRow(rows, row) ==
    IF RowsOf(rows, row.key) # {}
    THEN [raised |-> TRUE, rows |-> rows]
    ELSE [raised |-> FALSE, rows |-> Append(rows, row)]

\* UPDATE financials SET ... WHERE stock_code=? AND year=?
UpdateRows(rows, kind, key, v) ==
    [i \in 1..Len(rows) |->
        IF rows[i].key # key THEN rows[i]
        ELSE [rows[i] EXCEPT
                 !.revenue = v,
                 !.gross_margin = IF kind = "extract_hk_v2" THEN v ELSE @]]

\* INSERT OR REPLACE INTO financials: the rows of the key are deleted.
InsertOrReplace(rows, row) ==
    Append(SelectSeq(rows, LAMBDA r : r.key # row.key), row)

CsInit ==
    /\ cs_rows = <<>>
    /\ cs_pc = [p \in SaveProcs |-> "ready"]
    /\ cs_call = [p \in SaveProcs |-> None]
    /\ cs_existing = [p \in SaveProcs |-> FALSE]
    /\ cs_saves = [p \in SaveProcs |-> 0]
    /\ cs_last = [key \in SaveKeys |-> None]
    /\ IdleExcept("cs")

\* batch_hk_stocks.save_to_database(data)
SaveToDatabase(p, key, v) ==
    /\ cs_pc[p] = "ready"
    /\ cs_saves[p] < MaxProcSaves
    /\ cs_rows' = InsertOrReplace(cs_rows, NewRow("batch_hk_stocks", key, v))
    /\ cs_last' = [cs_last EXCEPT ![key] = Some([kind |-> "batch_hk_stocks", v |-> v])]
    /\ cs_saves' = [cs_saves EXCEPT ![p] = @ + 1]
    /\ UNCHANGED <<cs_pc, cs_call, cs_existing>>
    /\ Frame("cs")

\* save_to_db: SELECT id FROM financials WHERE stock_code=? AND year=?
SelectExisting(p, kind, key, v) ==
    /\ cs_pc[p] = "ready"
    /\ cs_saves[p] < MaxProcSaves
    /\ cs_call' = [cs_call EXCEPT ![p] = Some([kind |-> kind, key |-> key, v |-> v])]
    /\ cs_existing' = [cs_existing EXCEPT ![p] = RowsOf(cs_rows, key) # {}]
    /\ cs_pc' = [cs_pc EXCEPT ![p] = "selected"]
    /\ cs_saves' = [cs_saves EXCEPT ![p] = @ + 1]
    /\ UNCHANGED <<cs_rows, cs_last>>
    /\ Frame("cs")

\* save_to_db: `if existing:` UPDATE, else INSERT; conn.commit().  The
\* IntegrityError of the INSERT is not caught and ends the process.
WriteRow(p) ==
    /\ cs_pc[p] = "selected"
    /\ LET call == Val(cs_call[p])
           written ==
               IF cs_existing[p]
               THEN [raised |-> FALSE,
                     rows |-> UpdateRows(cs_rows, call.kind, call.key, call.v)]
               ELSE InsertRow(cs_rows, NewRow(call.kind, call.key, call.v))
       IN  /\ cs_rows' = written.rows
           /\ cs_pc' = [cs_pc EXCEPT ![p] = IF written.raised THEN "raised"
                                            ELSE "ready"]
           /\ cs_last' = IF written.raised THEN cs_last
                         ELSE [cs_last EXCEPT ![call.key] =
                                  Some([kind |-> call.kind, v |-> call.v])]
    /\ cs_call' = [cs_call EXCEPT ![p] = None]
    /\ UNCHANGED <<cs_existing, cs_saves>>
    /\ Frame("cs")

CsNext ==
    \/ \E p \in SaveProcs, key \in SaveKeys, v \in SaveData :
          SaveToDatabase(p, key, v)
    \/ \E p \in SaveProcs, kind \in SaveDbKinds, key \in SaveKeys, v \in SaveData :
          SelectExisting(p, kind, key, v)
    \/ \E p \in SaveProcs : WriteRow(p)

SpecConcurrentSave == CsInit /\ [][CsNext]_vars

NewLine == "\n"

\* The characters \s matches among the model's characters.
RegexSpace == {" ", NewLine}

\* The window of the context, in characters on each side of the match.
ContextWindow == 30

\* str.count(c) for a one-character c.
CountChar(s, c) == Cardinality({ i \in 1..Len(s) : s[i] = c })

\* str.replace(a, b) for one-character a and b.
ReplaceChar(s, a, b) == [i \in 1..Len(s) |-> IF s[i] = a THEN b ELSE s[i]]

\* c * n
Repeat(c, n) == [i \in 1..n |-> c]

\* The first position at or after `from` whose character is not in chars.
RECURSIVE SkipChars(_, _, _)
SkipChars(s, from, chars) ==
    IF from <= Len(s) /\ s[from] \in chars
    THEN SkipChars(s, from + 1, chars)
    ELSE from

\* The pattern r'ROE[:：]?\s*([\d.]+)\s*%' matched at position i of the text
\* (1-based): the match with the 0-based start and end of re.Match and its
\* group 1, or None.  The classes that follow one another are disjoint, so
\* the greedy match is the only one.
MatchRoeAt(text, i) ==
    IF ~(i + 2 <= Len(text) /\ StrUpper(SubSeq(text, i, i + 2)) = <<"R", "O", "E">>)
    THEN None
    ELSE LET colon == IF i + 3 <= Len(text) /\ text[i + 3] \in {":", "fwcolon"}
                      THEN i + 4 ELSE i + 3
             digits == SkipChars(text, colon, RegexSpace)
             after == SkipChars(text, digits, DigitChars \cup {"."})
             percent == SkipChars(text, after, RegexSpace)
         IN  IF after > digits /\ percent <= Len(text) /\ text[percent] = "%"
             THEN Some([start |-> i - 1, end |-> percent,
                        group1 |-> SubSeq(text, digits, after - 1)])
             ELSE None

\* re.search(pattern, text, re.IGNORECASE): the leftmost match, or None.
RECURSIVE SearchRoe(_, _)
SearchRoe(text, from) ==
    IF from > Len(text) THEN None
    ELSE IF MatchRoeAt(text, from) # None THEN MatchRoeAt(text, from)
    ELSE SearchRoe(text, from + 1)

\* extract_from_text_with_source(text, 'roe', page_num, line_offset)
extract_roe_with_source(text, page_num, line_offset) ==
    LET match == SearchRoe(text, 1) IN
    IF match = None THEN None
    ELSE LET value == FinancialReportParser_parse_number(Val(match).group1, None)
             start == IF Val(match).start - ContextWindow > 0
                      THEN Val(match).start - ContextWindow ELSE 0
             end == IF Val(match).end + ContextWindow < Len(text)
                    THEN Val(match).end + ContextWindow ELSE Len(text)
         IN  IF value = None THEN None
             ELSE Some([value |-> Val(value),
                        page |-> page_num,
                        line |-> CountChar(SubSeq(text, 1, Val(match).start), NewLine)
                                    + 1 + line_offset,
                        context |-> StrStrip(ReplaceChar(SubSeq(text, start + 1, end),
                                                         NewLine, " "))])

\* f"--- Page {page_num} ---"
PageMarker(page_num) ==
    <<"-", "-", "-", " ", "P", "a", "g", "e", " ">> \o IntToDigits(page_num)
        \o <<" ", "-", "-", "-">>

\* The header of the .txt file: source, total pages, a rule, an empty line.
TextHeader(total_pages) ==
    <<"#", " ", "S", "o", "u", "r", "c", "e", ":", " ", "r", ".", "p", "d", "f", NewLine>>
        \o <<"#", " ", "T", "o", "t", "a", "l", " ", "P", "a", "g", "e", "s", ":", " ">>
        \o IntToDigits(total_pages) \o <<NewLine>>
        \o Repeat("=", 60) \o <<NewLine, NewLine>>

\* "[Error: {e}]" for the exception of a page whose extraction fails.
ErrorLine == <<"[", "E", "r", "r", "o", "r", ":", " ", "e", "]">>

\* A mutant of SavePage: the marker of a failed page counts for two lines.
SavePage_error_two_lines(st, page_num, page, save_text) ==
    IF page.kind = "error"
    THEN IF save_text
         THEN [st EXCEPT
                 !.file = @ \o <<NewLine>> \o PageMarker(page_num) \o <<NewLine>>
                            \o ErrorLine \o <<NewLine>>,
                 !.current_line = @ + 2]
         ELSE st
    ELSE IF page.text = <<>> THEN st
    ELSE LET line_offset == IF save_text THEN st.current_line + 3
                            ELSE st.current_line
         IN  [file |-> IF save_text
                       THEN st.file \o <<NewLine>> \o PageMarker(page_num)
                                \o <<NewLine, NewLine>> \o page.text \o <<NewLine>>
                       ELSE st.file,
              current_line |-> IF save_text
                               THEN line_offset + CountChar(page.text, NewLine) + 1
                               ELSE st.current_line,
              page_texts |-> Append(st.page_texts,
                                 [page_num |-> page_num, text |-> page.text,
                                  line_offset |-> line_offset])]

\* parse_pdf_with_source, one turn of the loop over the pages: the page's
\* text goes to the file under its marker and into page_texts with the
\* line offset; a page without text leaves nothing; a page whose
\* extraction raises leaves its marker and the error.
SavePage(st, page_num, page, save_text) ==
    IF page.kind = "error"
    THEN IF save_text
         THEN [st EXCEPT
                 !.file = @ \o <<NewLine>> \o PageMarker(page_num) \o <<NewLine>>
                            \o ErrorLine \o <<NewLine>>,
                 !.current_line = @ + 3]
         ELSE st
    ELSE IF page.text = <<>> THEN st
    ELSE LET line_offset == IF save_text THEN st.current_line + 3
                            ELSE st.current_line
         IN  [file |-> IF save_text
                       THEN st.file \o <<NewLine>> \o PageMarker(page_num)
                                \o <<NewLine, NewLine>> \o page.text \o <<NewLine>>
                       ELSE st.file,
              current_line |-> IF save_text
                               THEN line_offset + CountChar(page.text, NewLine) + 1
                               ELSE st.current_line,
              page_texts |-> Append(st.page_texts,
                                 [page_num |-> page_num, text |-> page.text,
                                  line_offset |-> line_offset])]

\* The loop over the pages from page_num on.
RECURSIVE SavePages(_, _, _, _)
SavePages(st, pages, page_num, save_text) ==
    IF page_num > Len(pages) THEN st
    ELSE SavePages(SavePage(st, page_num, pages[page_num], save_text),
                   pages, page_num + 1, save_text)

\* The loop over page_texts for the field: the first page that gives a value.
RECURSIVE FirstExtracted(_, _)
FirstExtracted(page_texts, from) ==
    IF from > Len(page_texts) THEN None
    ELSE LET extracted == extract_roe_with_source(page_texts[from].text,
                              page_texts[from].page_num,
                              page_texts[from].line_offset)
         IN  IF extracted # None THEN extracted
             ELSE FirstExtracted(page_texts, from + 1)

\* parse_pdf_with_source(pdf_path, save_text): the file and the indicator.
parse_pdf_with_source_text(pages, save_text) ==
    LET opened == [file |-> IF save_text THEN TextHeader(Len(pages)) ELSE <<>>,
                   current_line |-> IF save_text THEN 4 ELSE 0,
                   page_texts |-> <<>>]
        st == SavePages(opened, pages, 1, save_text)
    IN  [file |-> st.file, roe |-> FirstExtracted(st.page_texts, 1)]

\* Bound of SpecProvenance: the pages of the PDF.
MaxSourcePages == 3

\* The texts of the pages of the model.
Filler == Repeat("x", ContextWindow + 2)
ProvenanceTexts ==
    { <<"R", "O", "E", ":", "1", "%">>,
      <<"x", NewLine, "R", "O", "E", ":", "1", "%">>,
      <<" ", NewLine, "R", "O", "E", " ", "2", " ", "%", NewLine>>,
      Filler \o <<"R", "O", "E", ":", NewLine, "1", ".", "5", "%">> \o Filler,
      <<"x", "x", NewLine, "x">>,
      <<"x", NewLine>> }

PdfPages ==
    [kind : {"text"}, text : ProvenanceTexts]
        \cup {[kind |-> "text", text |-> <<>>], [kind |-> "error", text |-> <<>>]}

SpInit ==
    /\ sp_pages \in UNION { [1..n -> PdfPages] : n \in 1..MaxSourcePages }
    /\ sp_save_text \in BOOLEAN
    /\ sp_file = <<>>
    /\ sp_result = None
    /\ sp_done = FALSE
    /\ IdleExcept("sp")

ParsePdfWithSource ==
    /\ ~sp_done
    /\ \E parsed \in {parse_pdf_with_source_text(sp_pages, sp_save_text)} :
          /\ sp_file' = parsed.file
          /\ sp_result' = parsed.roe
    /\ sp_done' = TRUE
    /\ UNCHANGED <<sp_pages, sp_save_text>>
    /\ Frame("sp")

SpNext == ParsePdfWithSource

SpecProvenance == SpInit /\ [][SpNext]_vars

\* The lines of the saved file.
FileLines == SplitChar(sp_file, NewLine)

\* The page under whose marker line n of the file stands, 0 for none.
MarkerAbove(n) ==
    LET markers == { k \in 1..n : \E p \in 1..Len(sp_pages) :
                                      FileLines[k] = PageMarker(p) }
        last == CHOOSE k \in markers : \A j \in markers : j <= k
    IN  IF markers = {} THEN 0
        ELSE CHOOSE p \in 1..Len(sp_pages) : FileLines[last] = PageMarker(p)

\* The recorded page is a page with text where the pattern matches, and the
\* recorded line is the line of the file that holds, under the marker of
\* that page, the line of the page's text on which the match begins.
PageAndLineAccurate ==
    (sp_done /\ sp_save_text /\ sp_result # None) =>
        LET source == Val(sp_result)
            text == sp_pages[source.page].text
            match == SearchRoe(text, 1)
            line_in_page == CountChar(SubSeq(text, 1, Val(match).start), NewLine) + 1
        IN  /\ source.page \in 1..Len(sp_pages)
            /\ sp_pages[source.page].kind = "text"
            /\ match # None
            /\ source.line \in 1..Len(FileLines)
            /\ FileLines[source.line] = SplitChar(text, NewLine)[line_in_page]
            /\ MarkerAbove(source.line) = source.page
            /\ source.line - line_in_page >= 1
            /\ FileLines[source.line - line_in_page] = <<>>
            /\ source.line - line_in_page - 1 >= 1
            /\ FileLines[source.line - line_in_page - 1] = PageMarker(source.page)

\* The text of the page from 30 characters before the match to 30
\* characters after it, clipped to the page.
RawWindow ==
    LET text == sp_pages[Val(sp_result).page].text
        match == Val(SearchRoe(text, 1))
        start == IF match.start - ContextWindow > 0
                 THEN match.start - ContextWindow ELSE 0
        end == IF match.end + ContextWindow < Len(text)
               THEN match.end + ContextWindow ELSE Len(text)
    IN  SubSeq(text, start + 1, end)

ApiOutcomes == {"ok", "fail"}

\* The time APIs of time_apis, in order.
time_apis == <<"worldtimeapi", "cninfo">>

\* A mutant of get_current_date_from_network: the local time of the
\* fallback is returned without being cached.
get_current_date_from_network_fallback_not_cached(cached, outcomes, today, local) ==
    IF cached # None
    THEN [value |-> Val(cached), cached |-> cached, requests |-> 0]
    ELSE LET answered == { k \in 1..Len(time_apis) : outcomes[k] = "ok" }
             first == CHOOSE k \in answered : \A j \in answered : k <= j
         IN  IF answered # {}
             THEN [value |-> today, cached |-> Some(today), requests |-> first]
             ELSE [value |-> local, cached |-> None,
                   requests |-> Len(time_apis)]

\* get_current_date_from_network(): the value returned, the cache after
\* the call and the requests the call sent.
get_current_date_from_network(cached, outcomes, today, local) ==
    IF cached # None
    THEN [value |-> Val(cached), cached |-> cached, requests |-> 0]
    ELSE LET answered == { k \in 1..Len(time_apis) : outcomes[k] = "ok" }
             first == CHOOSE k \in answered : \A j \in answered : k <= j
         IN  IF answered # {}
             THEN [value |-> today, cached |-> Some(today), requests |-> first]
             ELSE [value |-> local, cached |-> Some(local),
                   requests |-> Len(time_apis)]

\* Bounds of SpecNetworkDate: the days that pass and the calls of a process.
MaxDate == 4
MaxDateCalls == 3

NdInit ==
    /\ nd_today = 1
    /\ nd_skew \in {0, 1}
    /\ nd_cached = None
    /\ nd_calls = 0
    /\ nd_requests = 0
    /\ nd_returned = None
    /\ IdleExcept("nd")

\* Midnight passes while the process runs.
Midnight ==
    /\ nd_today < MaxDate
    /\ nd_today' = nd_today + 1
    /\ UNCHANGED <<nd_skew, nd_cached, nd_calls, nd_requests, nd_returned>>
    /\ Frame("nd")

\* A download function calls get_current_date_from_network().
GetCurrentDate(outcomes) ==
    /\ nd_calls < MaxDateCalls
    /\ LET call == get_current_date_from_network(nd_cached, outcomes,
                       nd_today, nd_today + nd_skew)
       IN  /\ nd_cached' = call.cached
           /\ nd_requests' = nd_requests + call.requests
           /\ nd_returned' = Some(call.value)
    /\ nd_calls' = nd_calls + 1
    /\ UNCHANGED <<nd_today, nd_skew>>
    /\ Frame("nd")

NdNext ==
    \/ Midnight
    \/ \E outcomes \in [1..Len(time_apis) -> ApiOutcomes] : GetCurrentDate(outcomes)

SpecNetworkDate == NdInit /\ [][NdNext]_vars

\* C27: after the first call of get_current_date_from_network has
\* returned, from a time API or from the local clock, every later call
\* returns the value the first returned and sends no request.
C27_DateMemoized ==
    [][(nd_calls >= 1 /\ nd_calls' = nd_calls + 1) =>
          (nd_returned' = nd_returned /\ nd_requests' = nd_requests)]_vars

\* The first call fell back on the local clock, a day ahead of the
\* servers; midnight passed; the second call returned the same day and
\* sent no request beyond the two of the first.
C27_Witness ==
    /\ nd_calls = 2
    /\ nd_skew = 1
    /\ nd_today = 2
    /\ nd_requests = 2
    /\ nd_returned = Some(2)
    /\ nd_cached = Some(2)


(***************************************************************************)
(* XueqiuCrawler.fetch_stock_discussions: the loop that parses the page    *)
(* and scrolls, and analyze_discussions over the list it returns.  The     *)
(* timeline is a list of posts; the page shows its first posts and a       *)
(* scroll makes it load more.  A post is known by its url.                 *)
(***************************************************************************)

\* Bounds of SpecScroll: the posts of the timeline and the argument
\* max_pages.
MaxTimeline == 4
MaxScrollPages == 3

\* The post of the timeline at place k, as _parse_discussions reads it.
TimelinePost(k) ==
    [content |-> PatternContent("all", k), likes |-> Some(k), url |-> k]

\* _parse_discussions(): every .timeline__item of the page that has content.
parse_discussions(shown) == [k \in 1..shown |-> TimelinePost(k)]

ScInit ==
    /\ sc_shown \in 1..2
    /\ sc_max_pages \in 1..MaxScrollPages
    /\ sc_page_num = 0
    /\ sc_discussions = <<>>
    /\ sc_analysis = None
    /\ IdleExcept("sc")

\* One turn of `for page_num in range(max_pages)`: the page is parsed, its
\* posts are added to the list, and the scroll loads `loaded` more posts.
ParseAndScroll(loaded) ==
    /\ sc_page_num < sc_max_pages
    /\ sc_shown + loaded <= MaxTimeline
    /\ sc_discussions' = sc_discussions \o parse_discussions(sc_shown)
    /\ sc_shown' = sc_shown + loaded
    /\ sc_page_num' = sc_page_num + 1
    /\ UNCHANGED <<sc_max_pages, sc_analysis>>
    /\ Frame("sc")

\* crawl_xueqiu_async: analyze_discussions over the list returned.
AnalyzeCollected ==
    /\ sc_page_num = sc_max_pages
    /\ sc_analysis = None
    /\ sc_analysis' = Some(analyze_discussions(sc_discussions))
    /\ UNCHANGED <<sc_shown, sc_max_pages, sc_page_num, sc_discussions>>
    /\ Frame("sc")

ScNext ==
    \/ \E loaded \in 0..2 : ParseAndScroll(loaded)
    \/ AnalyzeCollected

SpecScroll == ScInit /\ [][ScNext]_vars

\* The posts collected, and those of them with the sentiment.
CollectedPosts == { sc_discussions[i].url : i \in 1..Len(sc_discussions) }
CollectedWith(sentiment) ==
    { k \in CollectedPosts : analyze_sentiment(TimelinePost(k).content) = sentiment }

\* C28: each post of the page is collected at most once: the list holds no
\* post twice, and total_discussions and the sentiment counts are the
\* numbers of distinct posts.
C28_EachPostOnce ==
    /\ \A i, j \in 1..Len(sc_discussions) :
          i # j => sc_discussions[i].url # sc_discussions[j].url
    /\ sc_analysis # None =>
          /\ Val(sc_analysis).total_discussions = Cardinality(CollectedPosts)
          /\ \A s \in {"positive", "negative", "neutral"} :
                Val(sc_analysis).sentiment[s] = Cardinality(CollectedWith(s))


(***************************************************************************)
(* batch_hk_stocks.main(resume, clear_data=False): get_processed_stocks    *)
(* and the loop over HK_STOCKS.  The database holds rows of market HK for  *)
(* codes of HK_STOCKS only: the scripts that write the table all go over   *)
(* that list.  process_stock succeeds when a year was saved, fails when    *)
(* none was, or raises.                                                    *)
(***************************************************************************)

\* The list HK_STOCKS, cut to its first codes.
HK_STOCKS == <<"00700", "09988", "03690", "09618">>

ProcessOutcomes == {"success", "failed", "raised"}

\* SELECT DISTINCT stock_code FROM financials WHERE market = "HK"
get_processed_stocks(db) == db

\* A mutant of main_turn: a stock whose processing raised is not added to
\* failed_stocks.
main_turn_raise_dropped(run, code, outcome) ==
    IF outcome = "success"
    THEN [run EXCEPT !.success_count = @ + 1]
    ELSE IF outcome = "failed"
    THEN [run EXCEPT !.failed_stocks = Append(@, code)]
    ELSE run

\* main, one turn of the loop for a code that is not in processed: the
\* try with its except.
main_turn(run, code, outcome) ==
    IF outcome = "success"
    THEN [run EXCEPT !.success_count = @ + 1]
    ELSE [run EXCEPT !.failed_stocks = Append(@, code)]

BmInit ==
    /\ bm_db \in SUBSET { HK_STOCKS[k] : k \in 1..Len(HK_STOCKS) }
    /\ bm_db0 = bm_db
    /\ bm_resume \in BOOLEAN
    /\ bm_pc = "start"
    /\ bm_i = 0
    /\ bm_run = [processed |-> {}, success_count |-> 0, failed_stocks |-> <<>>]
    /\ bm_log = <<>>
    /\ IdleExcept("bm")

\* main up to the loop: processed and success_count.
BeginBatch ==
    /\ bm_pc = "start"
    /\ LET processed == IF bm_resume THEN get_processed_stocks(bm_db) ELSE {}
       IN  bm_run' = [processed |-> processed,
                      success_count |-> Cardinality(processed),
                      failed_stocks |-> <<>>]
    /\ bm_pc' = "loop"
    /\ UNCHANGED <<bm_db, bm_db0, bm_resume, bm_i, bm_log>>
    /\ Frame("bm")

\* `if code in processed: continue`
SkipProcessed ==
    /\ bm_pc = "loop"
    /\ bm_i < Len(HK_STOCKS)
    /\ HK_STOCKS[bm_i + 1] \in bm_run.processed
    /\ bm_i' = bm_i + 1
    /\ UNCHANGED <<bm_db, bm_db0, bm_resume, bm_pc, bm_run, bm_log>>
    /\ Frame("bm")

\* The turn of the loop that calls process_stock(code).
ProcessStock(outcome) ==
    /\ bm_pc = "loop"
    /\ bm_i < Len(HK_STOCKS)
    /\ HK_STOCKS[bm_i + 1] \notin bm_run.processed
    /\ LET code == HK_STOCKS[bm_i + 1]
       IN  /\ bm_log' = Append(bm_log, code)
           /\ bm_run' = main_turn(bm_run, code, outcome)
           /\ bm_db' = IF outcome = "success" THEN bm_db \cup {code} ELSE bm_db
    /\ bm_i' = bm_i + 1
    /\ UNCHANGED <<bm_db0, bm_resume, bm_pc>>
    /\ Frame("bm")

\* The loop is over: main prints the summary.
PrintSummary ==
    /\ bm_pc = "loop"
    /\ bm_i = Len(HK_STOCKS)
    /\ bm_pc' = "done"
    /\ UNCHANGED <<bm_db, bm_db0, bm_resume, bm_i, bm_run, bm_log>>
    /\ Frame("bm")

BmNext ==
    \/ BeginBatch
    \/ SkipProcessed
    \/ \E outcome \in ProcessOutcomes : ProcessStock(outcome)
    \/ PrintSummary

SpecBatch == BmInit /\ [][BmNext]_vars

\* C29: with resume, the calls of process_stock so far are, in list order
\* and once each, the stocks the loop has passed that had no row of market
\* HK when main began, whatever the outcomes of the calls; on completion
\* success_count + len(failed_stocks) = len(HK_STOCKS), and success_count
\* is never above len(HK_STOCKS).
C29_ResumeProcessesOthersOnce ==
    bm_resume =>
        /\ bm_log = SelectSeq(SubSeq(HK_STOCKS, 1, bm_i),
                              LAMBDA code : code \notin bm_db0)
        /\ bm_run.success_count <= Len(HK_STOCKS)
        /\ bm_pc = "done" =>
              bm_run.success_count + Len(bm_run.failed_stocks) = Len(HK_STOCKS)

\* The first stock had a row and was skipped, the second raised, the third
\* failed, the fourth succeeded: main is done with 2 successes and 2
\* failed stocks.
C29_Witness ==
    /\ bm_resume
    /\ bm_pc = "done"
    /\ bm_db0 = {"00700"}
    /\ bm_log = <<"09988", "03690", "09618">>
    /\ bm_run.success_count = 2
    /\ bm_run.failed_stocks = <<"09988", "03690">>


\* C30: no file of the list find_pdf_files returns has an exclude keyword
\* (gu3 xi1 = U+80A1 U+606F, pai4 xi1 = U+6D3E U+606F) in its name,
\* whichever search selected it.
C30_NoDividendFile ==
    fp_found # None =>
        \A i \in 1..Len(Val(fp_found).pdfs) :
            ~ShouldExclude(Val(fp_found).pdfs[i].name)

=============================================================================
